---- MODULE Spec2Model ----
(***************************************************************************)
(* Model of the conversion manager of src-tauri/src/conversion.rs: the     *)
(* coordinator task of ConversionManager::new with its bounded channel,    *)
(* process_queue, the workers of run_ffmpeg_worker, the external encoder   *)
(* processes, and the operations queue_conversion, pause_task,             *)
(* resume_task, cancel_task, current_max_concurrency and                   *)
(* update_max_concurrency.                                                 *)
(***************************************************************************)
EXTENDS Integers, Sequences, FiniteSets, TLC

(* ------------------------------ bounds --------------------------------- *)

\* Number of jobs admitted by queue_conversion in one behaviour of Spec.
MaxJobs == 2
\* Number of jobs admitted in one behaviour of SpecCalls, which also records
\* what every API call returned.
MaxCallJobs == 1
\* Number of jobs admitted in one behaviour of SpecSched, the scheduling
\* alone: no pause, resume or cancel and no stderr lines.
MaxSchedJobs == 2
\* Number of jobs admitted in one behaviour of SpecFifo, the scheduling with
\* enough jobs for two of them to wait in the queue together.
MaxFifoJobs == 3
\* Number of jobs admitted in one behaviour of SpecWork: every operation, on
\* either platform.
MaxWorkJobs == 1
\* Number of jobs admitted in one behaviour of SpecSignals, which records what
\* pause, resume and cancel returned and the OS calls they made, on either
\* platform.
MaxSignalJobs == 1
\* Number of jobs admitted in one behaviour of SpecFull, which records what
\* the API calls returned.
MaxFullJobs == 1
\* Capacity of the channel in SpecFull: the channel scaled down, so that the
\* senders meet a full channel with the few messages of MaxFullJobs jobs.
MaxChannel == 1
\* Number of jobs admitted in one behaviour of SpecStream, and the number of
\* stderr lines its encoder prints.
MaxStreamJobs == 1
MaxStreamLines == 2
\* Largest length of the output name given to build_output_path.
MaxNameLen == 3
\* Largest number of colon-separated pieces in a string given to parse_time.
MaxTimeParts == 4
\* Number of jobs admitted in one behaviour of SpecControl, where pause,
\* resume and cancel meet queued jobs.
MaxControlJobs == 2

\* Jobs submitted in SpecBlocked, more than the channel of MaxChannel holds.
MaxBlockedJobs == 3
\* Largest value passed to update_max_concurrency.
MaxLimit == 2

\* The evaluations of estimate_output made on one input.
MaxEstimateCalls == 2
\* Number of stderr lines the encoder processes print in one behaviour.
MaxLines == 1

\* Job ids the callers supply (opaque strings), in the order in which
\* queue_conversion first uses them.
JobIdOrder == <<"a", "b">>

JobIds == {JobIdOrder[i] : i \in 1..Len(JobIdOrder)}

(* ------------------------- program constants --------------------------- *)

DEFAULT_MAX_CONCURRENCY == 2
\* mpsc::channel(32)
CHANNEL_CAPACITY == 32

(* ------------------------------ state ---------------------------------- *)

VARIABLES
    chan,             \* the mpsc channel: messages sent and not yet received
    queue,            \* coordinator: VecDeque<ConversionTask>
    running_tasks,    \* coordinator: key set of HashMap<String, ()>
    max_concurrency,  \* Arc<AtomicUsize>
    active_tasks,     \* Arc<Mutex<HashMap<String, u32>>>: id -> pid
    ctl,              \* the pause/resume/cancel call holding the table lock
    lastCall,         \* the last finished API call and what it returned
    lastGoodSet,      \* history: argument of the last accepted limit change
    nextJob,          \* history: number of the next job to be admitted
    jobId,            \* history: job number -> the id it was submitted under
    wpc,              \* job number -> position of its worker task
    proc,             \* job number -> state of its encoder process
    exit_code,        \* job number -> Option<i32> of CommandEvent::Terminated
    total_duration,   \* job number -> worker local Option<f64>
    nlines,           \* history: stderr lines read by the workers so far
    events,           \* job number -> events emitted to subscribers, in order
    enqOrder,         \* history: jobs in the order their Enqueue was received
    launchOrder,      \* history: jobs in the order their worker was spawned
    idReused,         \* history: an id was submitted while a job had it
    budget,           \* fixed by Init: jobs admitted, API results recorded,
                      \* the platform the program was built for, the
                      \* capacity of the channel, stderr lines printed
    eval              \* the call of a function that reads no state of the
                      \* manager: its name, its arguments, its results

vars == <<chan, queue, running_tasks, max_concurrency, active_tasks, ctl,
          lastCall, lastGoodSet, nextJob, jobId, wpc, proc, exit_code,
          total_duration, nlines, events, enqOrder, launchOrder, idReused,
          budget, eval>>

coordVars  == <<queue, running_tasks, active_tasks>>
workerVars == <<wpc, proc, exit_code, total_duration, nlines, events>>
histVars   == <<nextJob, jobId, enqOrder, launchOrder, idReused, budget,
                eval>>
\* Everything but eval.
managerVars == <<chan, queue, running_tasks, max_concurrency, active_tasks,
                 ctl, lastCall, lastGoodSet, nextJob, jobId, wpc, proc,
                 exit_code, total_duration, nlines, events, enqOrder,
                 launchOrder, idReused, budget>>

Max(a, b) == IF a >= b THEN a ELSE b
Min(a, b) == IF a <= b THEN a ELSE b

Jobs == 1..Max(Max(Max(MaxJobs, MaxCallJobs), Max(MaxSchedJobs, MaxFifoJobs)),
               Max(Max(MaxWorkJobs, MaxSignalJobs),
                   Max(Max(MaxFullJobs, MaxStreamJobs),
                       Max(MaxControlJobs, MaxBlockedJobs))))

\* Option<T>: None is <<>>, Some(v) is <<v>>.
None == <<>>
Some(v) == <<v>>

\* HashMap insert / remove on a function whose domain is the key set.
MapInsert(m, k, v) == [x \in DOMAIN m \cup {k} |-> IF x = k THEN v ELSE m[x]]
MapRemove(m, k) == [x \in DOMAIN m \ {k} |-> m[x]]
EmptyMap == [x \in {} |-> 0]

Msg(type, id, job, pid) == [type |-> type, id |-> id, job |-> job, pid |-> pid]
Task(id, job) == [id |-> id, job |-> job]

\* The builds: cfg(unix) and cfg(windows).
Platforms == {"unix", "windows"}

\* What an API call returned: its result, the value of a getter, and the
\* OS calls it made, each with its outcome.
Call(op, id, arg, result, value, sigs) ==
    [op |-> op, id |-> id, arg |-> arg, result |-> result, value |-> value,
     sigs |-> sigs]

NoCall == Call("", "", 0, "", 0, <<>>)

Return(call) == lastCall' = IF budget.watch THEN call ELSE lastCall

(* ------------------------- strings and numbers ------------------------- *)

\* A string is the sequence of its characters; a character outside ASCII is
\* named by its code point.
AsciiDigits == <<"0", "1", "2", "3", "4", "5", "6", "7", "8", "9">>

IsAsciiDigit(c) == \E i \in 1..Len(AsciiDigits) : AsciiDigits[i] = c

DigitValue(c) == (CHOOSE i \in 1..Len(AsciiDigits) : AsciiDigits[i] = c) - 1

\* Decimal digits of other scripts: \d of the regex crate matches every
\* character of general category Nd, str::parse::<f64> reads ASCII only.
UnicodeDigits == {"U+0662"}

IsRegexDigit(c) == IsAsciiDigit(c) \/ c \in UnicodeDigits

Abs(n) == IF n < 0 THEN -n ELSE n

RECURSIVE Gcd(_, _)
Gcd(a, b) == IF b = 0 THEN a ELSE Gcd(b, a % b)

\* A finite f64 as the fraction n/d in lowest terms, d > 0. The rounding of
\* f64 arithmetic is left out: the values met are short decimals.
Rat(n, d) ==
    LET g == Gcd(Abs(n), d) IN [n |-> n \div g, d |-> d \div g]

\* The sum and the product are formed over the common factors of the
\* denominators, which keeps the intermediate integers small.
RatAdd(a, b) ==
    LET g == Gcd(a.d, b.d)
    IN Rat(a.n * (b.d \div g) + b.n * (a.d \div g), (a.d \div g) * b.d)

RatMul(a, b) ==
    LET g1 == Gcd(Abs(a.n), b.d)
        g2 == Gcd(Abs(b.n), a.d)
    IN [n |-> (a.n \div g1) * (b.n \div g2),
        d |-> (a.d \div g2) * (b.d \div g1)]

RatLess(a, b) == a.n * b.d < b.n * a.d

\* The f64 that is not a number, written as the fraction 0/0; every
\* comparison with it is false.
NaN == [n |-> 0, d |-> 0]

\* a <= b on f64.
F64Le(a, b) == a # NaN /\ b # NaN /\ a.n * b.d <= b.n * a.d

RECURSIVE Pow10(_)
Pow10(k) == IF k = 0 THEN 1 ELSE 10 * Pow10(k - 1)

\* The value of a string of ASCII digits; 0 for the empty string.
RECURSIVE DecimalValue(_)
DecimalValue(ds) ==
    IF ds = <<>> THEN 0
    ELSE 10 * DecimalValue(SubSeq(ds, 1, Len(ds) - 1))
         + DigitValue(ds[Len(ds)])

\* <f64 as FromStr>::from_str on strings without letters: an optional sign,
\* then digits with at most one dot and at least one digit. (The exponent
\* forms and "inf", "nan" need letters.)
F64FromStr(str) ==
    LET signed == str # <<>> /\ Head(str) \in {"+", "-"}
        body == IF signed THEN Tail(str) ELSE str
        dots == {i \in 1..Len(body) : body[i] = "."}
        dot == IF dots = {} THEN Len(body) + 1 ELSE CHOOSE i \in dots : TRUE
        int == SubSeq(body, 1, dot - 1)
        frac == SubSeq(body, dot + 1, Len(body))
        ok == /\ Cardinality(dots) <= 1
              /\ \A i \in 1..Len(body) : body[i] = "." \/ IsAsciiDigit(body[i])
              /\ Len(int) + Len(frac) > 0
        mag == DecimalValue(int \o frac)
    IN IF ok
       THEN Some(Rat(IF signed /\ Head(str) = "-" THEN -mag ELSE mag,
                     Pow10(Len(frac))))
       ELSE None

\* str::split(sep).collect(): the pieces between the separators.
RECURSIVE Split(_, _)
Split(str, sep) ==
    LET at == {i \in 1..Len(str) : str[i] = sep}
    IN IF at = {} THEN <<str>>
       ELSE LET i == CHOOSE k \in at : \A m \in at : k <= m
            IN <<SubSeq(str, 1, i - 1)>>
               \o Split(SubSeq(str, i + 1, Len(str)), sep)

\* The timestamp HH:MM:SS.ff read by place value, in hundredths of a second.
StampCentis(str) ==
    LET v(i) == 10 * DigitValue(str[i]) + DigitValue(str[i + 1])
    IN (v(1) * 3600 + v(4) * 60 + v(7)) * 100 + v(10)

\* HH:MM:SS.ff: two digits, two digits, two digits, a dot, two digits.
ExactShape(str) ==
    /\ Len(str) = 11
    /\ \A i \in {1, 2, 4, 5, 7, 8, 10, 11} : IsAsciiDigit(str[i])
    /\ str[3] = ":" /\ str[6] = ":" /\ str[9] = "."

\* As parse_time, reading nothing but the shape HH:MM:SS.ff.
parse_time_exact(time_str) ==
    IF ExactShape(time_str) THEN Some(Rat(StampCentis(time_str), 100))
    ELSE None

parse_time(time_str) ==
    LET parts == Split(time_str, ":")
    IN IF Len(parts) # 3 THEN None
       ELSE LET h == F64FromStr(parts[1])
                m == F64FromStr(parts[2])
                sec == F64FromStr(parts[3])
            IN IF h = None \/ m = None \/ sec = None THEN None
               ELSE Some(RatAdd(RatAdd(RatMul(h[1], Rat(3600, 1)),
                                       RatMul(m[1], Rat(60, 1))),
                                sec[1]))

\* The group (\d{2}:\d{2}:\d{2}\.\d{2}) of both regexes.
TimestampGroup(str) ==
    /\ Len(str) = 11
    /\ \A i \in {1, 2, 4, 5, 7, 8, 10, 11} : IsRegexDigit(str[i])
    /\ str[3] = ":" /\ str[6] = ":" /\ str[9] = "."

\* Regex::captures(line) then caps.get(1), for a regex made of a literal
\* prefix and the timestamp group: the group of the leftmost match.
RegexCapture(prefix, line) ==
    LET n == Len(prefix)
        hits == {i \in 1..(Len(line) - n - 10) :
                    /\ line[i] = prefix[1]
                    /\ SubSeq(line, i, i + n - 1) = prefix
                    /\ TimestampGroup(SubSeq(line, i + n, i + n + 10))}
    IN IF hits = {} THEN None
       ELSE LET i == CHOOSE k \in hits : \A m \in hits : k <= m
            IN Some(SubSeq(line, i + n, i + n + 10))

duration_regex(line) ==
    RegexCapture(<<"D", "u", "r", "a", "t", "i", "o", "n", ":", " ">>, line)

time_regex(line) == RegexCapture(<<"t", "i", "m", "e", "=">>, line)

\* (current_time / duration * 100.0).min(100.0) for current_time >= 0 and
\* duration >= 0: a division by 0.0 gives +inf or NaN, and f64::min returns
\* 100.0 against either.
progress(current_time, duration) ==
    IF duration.n = 0 THEN Rat(100, 1)
    ELSE LET p == Rat(current_time.n * duration.d * 100,
                      current_time.d * duration.n)
         IN IF RatLess(Rat(100, 1), p) THEN Rat(100, 1) ELSE p

(* ------------------------- input validation ---------------------------- *)

\* str::parse::<i32> on the texts the model submits.
ParseI32(s) ==
    CASE s = "-1" -> Some(-1)
      [] s = "0" -> Some(0)
      [] s = "-2" -> Some(-2)
      [] s = "1280" -> Some(1280)
      [] s = "+5" -> Some(5)
      [] OTHER -> None

\* str::parse::<f64> on the texts the model submits.
ParseF64(s) ==
    CASE s = "5000" -> Some(Rat(5000, 1))
      [] s = "0" -> Some(Rat(0, 1))
      [] s = "-5" -> Some(Rat(-5, 1))
      [] s = "2.5" -> Some(Rat(5, 2))
      [] s = "NaN" -> Some(NaN)
      [] OTHER -> None

\* str::to_lowercase on the container names the model submits.
ToLowercase(s) ==
    CASE s = "MP3" -> "mp3"
      [] OTHER -> s

\* is_audio_only_container without the lower-casing of the name.
is_audio_only_container_exact(container) ==
    container \in {"mp3", "wav", "flac", "aac", "m4a"}

is_audio_only_container(container) ==
    ToLowercase(container) \in {"mp3", "wav", "flac", "aac", "m4a"}

UnwrapOr(opt, dflt) == IF opt = None THEN dflt ELSE opt[1]

\* validate_task_input: "Ok" or "InvalidInput".
validate_task_input(file, config) ==
    IF file = "missing" THEN "InvalidInput"
    ELSE IF file # "file" THEN "InvalidInput"
    ELSE
      LET w == ParseI32(UnwrapOr(config.custom_width, "-1"))
          h == ParseI32(UnwrapOr(config.custom_height, "-1"))
          dims ==
            IF config.resolution = "custom"
            THEN IF w = None \/ h = None THEN "InvalidInput"
                 ELSE IF w[1] = 0 \/ h[1] = 0 THEN "InvalidInput"
                 ELSE IF w[1] < -1 \/ h[1] < -1 THEN "InvalidInput"
                 ELSE "Ok"
            ELSE "Ok"
          b == ParseF64(config.video_bitrate)
          rate ==
            IF config.video_bitrate_mode = "bitrate"
               /\ ~is_audio_only_container(config.container)
            THEN IF b = None THEN "InvalidInput"
                 ELSE IF F64Le(b[1], Rat(0, 1)) THEN "InvalidInput"
                 ELSE "Ok"
            ELSE "Ok"
      IN IF dims # "Ok" THEN dims ELSE rate

Config(res, w, h, mode, rate, container) ==
    [resolution |-> res, custom_width |-> w, custom_height |-> h,
     video_bitrate_mode |-> mode, video_bitrate |-> rate,
     container |-> container]

\* The (file, config) pairs callers submit.
TaskInputs ==
    { [file |-> "file", config |-> Config("original", None, None, "crf", "5000", "mp4")],
      [file |-> "file", config |-> Config("custom", Some("1280"), None, "bitrate", "abc", "MP3")],
      [file |-> "missing", config |-> Config("original", None, None, "crf", "5000", "mp4")],
      [file |-> "file", config |-> Config("custom", Some("0"), Some("1280"), "crf", "5000", "mp4")],
      [file |-> "file", config |-> Config("original", None, None, "bitrate", "0", "mp4")] }

\* The submitted inputs that fail validate_task_input.
RejectedInputs ==
    {inp \in TaskInputs : validate_task_input(inp.file, inp.config) # "Ok"}

(* ------------------------------- Init ---------------------------------- *)

IdleCtl == [pc |-> "idle", op |-> "", id |-> "", pid |-> 0]

\* No function is under evaluation.
NoEval == [fn |-> "", arg |-> <<>>, out |-> <<>>]

\* The manager after ConversionManager::new.
InitManager ==
    /\ chan = <<>>
    /\ queue = <<>>
    /\ running_tasks = {}
    /\ max_concurrency = DEFAULT_MAX_CONCURRENCY
    /\ active_tasks = EmptyMap
    /\ ctl = IdleCtl
    /\ lastCall = NoCall
    /\ lastGoodSet = DEFAULT_MAX_CONCURRENCY
    /\ nextJob = 1
    /\ jobId = [j \in Jobs |-> ""]
    /\ wpc = [j \in Jobs |-> "idle"]
    /\ proc = [j \in Jobs |-> "none"]
    /\ exit_code = [j \in Jobs |-> None]
    /\ total_duration = [j \in Jobs |-> None]
    /\ nlines = 0
    /\ events = [j \in Jobs |-> <<>>]
    /\ enqOrder = <<>>
    /\ launchOrder = <<>>
    /\ idReused = FALSE

InitState == InitManager /\ eval = NoEval

Init ==
    /\ InitState
    /\ budget = [jobs |-> MaxJobs, watch |-> FALSE, platform |-> "unix",
                   capacity |-> CHANNEL_CAPACITY, lines |-> MaxLines]

InitSched ==
    /\ InitState
    /\ budget = [jobs |-> MaxSchedJobs, watch |-> FALSE, platform |-> "unix",
                   capacity |-> CHANNEL_CAPACITY, lines |-> MaxLines]

InitFifo ==
    /\ InitState
    /\ budget = [jobs |-> MaxFifoJobs, watch |-> FALSE, platform |-> "unix",
                   capacity |-> CHANNEL_CAPACITY, lines |-> MaxLines]

InitCalls ==
    /\ InitState
    /\ budget = [jobs |-> MaxCallJobs, watch |-> TRUE, platform |-> "unix",
                   capacity |-> CHANNEL_CAPACITY, lines |-> MaxLines]

InitWork ==
    /\ InitState
    /\ \E p \in Platforms :
         budget = [jobs |-> MaxWorkJobs, watch |-> FALSE, platform |-> p,
                   capacity |-> CHANNEL_CAPACITY, lines |-> MaxLines]

InitFull ==
    /\ InitState
    /\ budget = [jobs |-> MaxFullJobs, watch |-> TRUE, platform |-> "unix",
                 capacity |-> MaxChannel, lines |-> MaxLines]

InitStream ==
    /\ InitState
    /\ budget = [jobs |-> MaxStreamJobs, watch |-> FALSE, platform |-> "unix",
                 capacity |-> CHANNEL_CAPACITY, lines |-> MaxStreamLines]

InitSignals ==
    /\ InitState
    /\ \E p \in Platforms :
         budget = [jobs |-> MaxSignalJobs, watch |-> TRUE, platform |-> p,
                   capacity |-> CHANNEL_CAPACITY, lines |-> MaxLines]

(* --------------------------- queue_conversion -------------------------- *)

\* A job is non-terminal from its admission until the coordinator has
\* handled its TaskCompleted or TaskError message.
Handled(j) ==
    /\ wpc[j] = "done"
    /\ \A i \in 1..Len(chan) : chan[i].job # j

NonTerminal(j) == j < nextJob /\ ~Handled(j)

NonTerminalIds == {jobId[j] : j \in {k \in Jobs : NonTerminal(k)}}

\* Ids are opaque, so the ids of jobs are named in the order of their first
\* admission: a job is submitted under the id of an earlier job or under the
\* first id no job has had yet. The other calls pass any id.
UsedIds == {jobId[j] : j \in 1..(nextJob - 1)}

FreshIds ==
    {JobIdOrder[i] : i \in 1..Min(Cardinality(UsedIds) + 1, Len(JobIdOrder))}

\* The inputs queue_conversion is called with under id.
SubmittedInputs(id) ==
    IF id \in UsedIds \cup FreshIds THEN TaskInputs ELSE RejectedInputs

\* As queue_conversion, with the Enqueue sent before the validation result
\* is looked at.
queue_conversion_send_first(id, inp) ==
    LET r == validate_task_input(inp.file, inp.config) IN
    /\ nextJob <= budget.jobs
    /\ Len(chan) < budget.capacity
    /\ chan' = Append(chan, Msg("Enqueue", id, nextJob, 0))
    /\ jobId' = [jobId EXCEPT ![nextJob] = id]
    /\ nextJob' = nextJob + 1
    /\ Return(Call("queue_conversion", id, 0, r, 0, <<>>))
    /\ idReused' = (idReused \/ id \in NonTerminalIds)
    /\ UNCHANGED <<coordVars, max_concurrency, ctl, lastGoodSet,
                   workerVars, enqOrder, launchOrder, budget, eval>>

\* queue_conversion: validate, then send Enqueue (the send waits for room).
queue_conversion(id, inp) ==
    LET r == validate_task_input(inp.file, inp.config) IN
    IF r # "Ok"
    THEN /\ Return(Call("queue_conversion", id, 0, r, 0, <<>>))
         /\ UNCHANGED <<chan, coordVars, max_concurrency, ctl, lastGoodSet,
                        workerVars, histVars>>
    ELSE /\ nextJob <= budget.jobs
         /\ Len(chan) < budget.capacity
         /\ chan' = Append(chan, Msg("Enqueue", id, nextJob, 0))
         /\ jobId' = [jobId EXCEPT ![nextJob] = id]
         /\ nextJob' = nextJob + 1
         /\ Return(Call("queue_conversion", id, 0, "Ok", 0, <<>>))
         /\ idReused' = (idReused \/ id \in NonTerminalIds)
         /\ UNCHANGED <<coordVars, max_concurrency, ctl, lastGoodSet,
                        workerVars, enqOrder, launchOrder, budget, eval>>

(* ----------------------------- coordinator ----------------------------- *)

\* As process_queue_loop, with `<=` for `<` in the loop condition.
RECURSIVE process_queue_loop_le(_, _, _, _)
process_queue_loop_le(q, run, limit, spawned) ==
    IF Cardinality(run) <= limit /\ q # <<>>
    THEN process_queue_loop_le(Tail(q), run \cup {Head(q).id}, limit,
                               Append(spawned, Head(q).job))
    ELSE [queue |-> q, running |-> run, spawned |-> spawned]

\* As process_queue_loop, with pop_back for pop_front.
RECURSIVE process_queue_loop_back(_, _, _, _)
process_queue_loop_back(q, run, limit, spawned) ==
    IF Cardinality(run) < limit /\ q # <<>>
    THEN process_queue_loop_back(SubSeq(q, 1, Len(q) - 1),
                                 run \cup {q[Len(q)].id}, limit,
                                 Append(spawned, q[Len(q)].job))
    ELSE [queue |-> q, running |-> run, spawned |-> spawned]

\* The loop of process_queue: result is the queue, the running set and the
\* jobs whose worker was spawned, in spawn order.
RECURSIVE process_queue_loop(_, _, _, _)
process_queue_loop(q, run, limit, spawned) ==
    IF Cardinality(run) < limit /\ q # <<>>
    THEN process_queue_loop(Tail(q), run \cup {Head(q).id}, limit,
                            Append(spawned, Head(q).job))
    ELSE [queue |-> q, running |-> run, spawned |-> spawned]

current_max_concurrency ==
    /\ Return(Call("get_max_concurrency", "", 0, "Ok", max_concurrency, <<>>))
    /\ UNCHANGED <<chan, coordVars, max_concurrency, ctl, lastGoodSet,
                   workerVars, histVars>>

\* As update_max_concurrency, followed by a scheduling pass with the new limit.
update_max_concurrency_pass(value) ==
    /\ value # 0
    /\ max_concurrency' = value
    /\ lastGoodSet' = value
    /\ Return(Call("set_max_concurrency", "", value, "Ok", 0, <<>>))
    /\ LET r == process_queue_loop(queue, running_tasks, value, <<>>)
           new == {r.spawned[i] : i \in 1..Len(r.spawned)}
       IN /\ queue' = r.queue
          /\ running_tasks' = r.running
          /\ wpc' = [j \in Jobs |-> IF j \in new THEN "spawn" ELSE wpc[j]]
          /\ launchOrder' = launchOrder \o r.spawned
    /\ UNCHANGED <<chan, active_tasks, ctl, proc, exit_code, total_duration,
                   nlines, events, nextJob, jobId, enqOrder, idReused, budget, eval>>

\* As update_max_concurrency, without the check for 0.
update_max_concurrency_unchecked(value) ==
    /\ max_concurrency' = value
    /\ lastGoodSet' = value
    /\ Return(Call("set_max_concurrency", "", value, "Ok", 0, <<>>))
    /\ UNCHANGED <<chan, coordVars, ctl, workerVars, histVars>>

\* As update_max_concurrency, taking the lock of the active-job table first.
update_max_concurrency_locked(value) ==
    /\ ctl.pc = "idle"
    /\ IF value = 0
       THEN /\ Return(Call("set_max_concurrency", "", value, "InvalidInput", 0, <<>>))
            /\ UNCHANGED <<max_concurrency, lastGoodSet>>
       ELSE /\ max_concurrency' = value
            /\ lastGoodSet' = value
            /\ Return(Call("set_max_concurrency", "", value, "Ok", 0, <<>>))
    /\ UNCHANGED <<chan, coordVars, ctl, workerVars, histVars>>

update_max_concurrency(value) ==
    /\ IF value = 0
       THEN /\ Return(Call("set_max_concurrency", "", value, "InvalidInput", 0, <<>>))
            /\ UNCHANGED <<max_concurrency, lastGoodSet>>
       ELSE /\ max_concurrency' = value
            /\ lastGoodSet' = value
            /\ Return(Call("set_max_concurrency", "", value, "Ok", 0, <<>>))
    /\ UNCHANGED <<chan, coordVars, ctl, workerVars, histVars>>

\* As process_queue, with each worker awaited in the pass instead of spawned:
\* the pass does not run while a worker launched earlier is unfinished.
process_queue_inline(q, run) ==
    LET limit == Max(max_concurrency, 1)
        r == process_queue_loop(q, run, limit, <<>>)
        new == {r.spawned[i] : i \in 1..Len(r.spawned)}
    IN /\ \A j \in Jobs : wpc[j] \in {"idle", "done"}
       /\ queue' = r.queue
       /\ running_tasks' = r.running
       /\ wpc' = [j \in Jobs |-> IF j \in new THEN "spawn" ELSE wpc[j]]
       /\ launchOrder' = launchOrder \o r.spawned

\* process_queue on queue q and running set run: one scheduling pass.
process_queue(q, run) ==
    LET limit == Max(max_concurrency, 1)
        r == process_queue_loop(q, run, limit, <<>>)
        new == {r.spawned[i] : i \in 1..Len(r.spawned)}
    IN /\ queue' = r.queue
       /\ running_tasks' = r.running
       /\ wpc' = [j \in Jobs |-> IF j \in new THEN "spawn" ELSE wpc[j]]
       /\ launchOrder' = launchOrder \o r.spawned

\* As coordinator_enqueue, without the call of process_queue.
coordinator_enqueue_no_pass ==
    /\ chan # <<>>
    /\ Head(chan).type = "Enqueue"
    /\ chan' = Tail(chan)
    /\ enqOrder' = Append(enqOrder, Head(chan).job)
    /\ queue' = Append(queue, Task(Head(chan).id, Head(chan).job))
    /\ UNCHANGED <<running_tasks, wpc, launchOrder, active_tasks,
                   max_concurrency, ctl, lastCall, lastGoodSet, nextJob, jobId,
                   proc, exit_code, total_duration, nlines, events, idReused,
                   budget, eval>>

\* ManagerMessage::Enqueue arm.
coordinator_enqueue ==
    /\ chan # <<>>
    /\ Head(chan).type = "Enqueue"
    /\ chan' = Tail(chan)
    /\ enqOrder' = Append(enqOrder, Head(chan).job)
    /\ process_queue(Append(queue, Task(Head(chan).id, Head(chan).job)),
                     running_tasks)
    /\ UNCHANGED <<active_tasks, max_concurrency, ctl, lastCall, lastGoodSet,
                   nextJob, jobId, proc, exit_code, total_duration, nlines,
                   events, idReused, budget, eval>>

\* As coordinator_task_started, with the message sent back to the channel
\* by the coordinator.
coordinator_task_started_resend ==
    /\ chan # <<>>
    /\ Head(chan).type = "TaskStarted"
    /\ ctl.pc = "idle"
    /\ chan' = Append(Tail(chan), Head(chan))
    /\ active_tasks' = MapInsert(active_tasks, Head(chan).id, Head(chan).pid)
    /\ UNCHANGED <<queue, running_tasks, max_concurrency, ctl, lastCall,
                   lastGoodSet, workerVars, histVars>>

\* ManagerMessage::TaskStarted arm.
coordinator_task_started ==
    /\ chan # <<>>
    /\ Head(chan).type = "TaskStarted"
    /\ ctl.pc = "idle"
    /\ chan' = Tail(chan)
    /\ active_tasks' = MapInsert(active_tasks, Head(chan).id, Head(chan).pid)
    /\ UNCHANGED <<queue, running_tasks, max_concurrency, ctl, lastCall,
                   lastGoodSet, workerVars, histVars>>

\* As coordinator_task_completed, without the scheduling pass.
coordinator_task_completed_no_pass ==
    /\ chan # <<>>
    /\ Head(chan).type = "TaskCompleted"
    /\ ctl.pc = "idle"
    /\ chan' = Tail(chan)
    /\ active_tasks' = MapRemove(active_tasks, Head(chan).id)
    /\ running_tasks' = running_tasks \ {Head(chan).id}
    /\ UNCHANGED <<queue, max_concurrency, ctl, lastCall, lastGoodSet,
                   workerVars, histVars>>

\* As coordinator_task_completed, without the removal from active_tasks.
coordinator_task_completed_keep ==
    /\ chan # <<>>
    /\ Head(chan).type = "TaskCompleted"
    /\ ctl.pc = "idle"
    /\ chan' = Tail(chan)
    /\ process_queue(queue, running_tasks \ {Head(chan).id})
    /\ UNCHANGED <<active_tasks, max_concurrency, ctl, lastCall, lastGoodSet,
                   nextJob, jobId, enqOrder, proc, exit_code, total_duration,
                   nlines, events, idReused, budget, eval>>

\* ManagerMessage::TaskCompleted arm.
coordinator_task_completed ==
    /\ chan # <<>>
    /\ Head(chan).type = "TaskCompleted"
    /\ ctl.pc = "idle"
    /\ chan' = Tail(chan)
    /\ active_tasks' = MapRemove(active_tasks, Head(chan).id)
    /\ process_queue(queue, running_tasks \ {Head(chan).id})
    /\ UNCHANGED <<max_concurrency, ctl, lastCall, lastGoodSet, nextJob,
                   jobId, enqOrder, proc, exit_code, total_duration, nlines,
                   events, idReused, budget, eval>>

\* As coordinator_task_error, with the failed job put back at the front of
\* the queue before the scheduling pass.
coordinator_task_error_retry ==
    /\ chan # <<>>
    /\ Head(chan).type = "TaskError"
    /\ ctl.pc = "idle"
    /\ chan' = Tail(chan)
    /\ active_tasks' = MapRemove(active_tasks, Head(chan).id)
    /\ process_queue(<<Task(Head(chan).id, Head(chan).job)>> \o queue,
                     running_tasks \ {Head(chan).id})
    /\ UNCHANGED <<max_concurrency, ctl, lastCall, lastGoodSet, nextJob,
                   jobId, enqOrder, proc, exit_code, total_duration, nlines,
                   events, idReused, budget, eval>>

\* As coordinator_task_error, without the removal from active_tasks.
coordinator_task_error_keep ==
    /\ chan # <<>>
    /\ Head(chan).type = "TaskError"
    /\ ctl.pc = "idle"
    /\ chan' = Tail(chan)
    /\ process_queue(queue, running_tasks \ {Head(chan).id})
    /\ UNCHANGED <<active_tasks, max_concurrency, ctl, lastCall, lastGoodSet,
                   nextJob, jobId, enqOrder, proc, exit_code, total_duration,
                   nlines, events, idReused, budget, eval>>

\* As coordinator_task_error, without the removal from running_tasks.
coordinator_task_error_holds_slot ==
    /\ chan # <<>>
    /\ Head(chan).type = "TaskError"
    /\ ctl.pc = "idle"
    /\ chan' = Tail(chan)
    /\ active_tasks' = MapRemove(active_tasks, Head(chan).id)
    /\ process_queue(queue, running_tasks)
    /\ UNCHANGED <<max_concurrency, ctl, lastCall, lastGoodSet, nextJob,
                   jobId, enqOrder, proc, exit_code, total_duration, nlines,
                   events, idReused, budget, eval>>

\* ManagerMessage::TaskError arm.
coordinator_task_error ==
    /\ chan # <<>>
    /\ Head(chan).type = "TaskError"
    /\ ctl.pc = "idle"
    /\ chan' = Tail(chan)
    /\ active_tasks' = MapRemove(active_tasks, Head(chan).id)
    /\ process_queue(queue, running_tasks \ {Head(chan).id})
    /\ UNCHANGED <<max_concurrency, ctl, lastCall, lastGoodSet, nextJob,
                   jobId, enqOrder, proc, exit_code, total_duration, nlines,
                   events, idReused, budget, eval>>

(* ------------------------------- workers ------------------------------- *)

\* "Duration: " and "time=" followed by a timestamp hh:mm:ss.00, and a line
\* of the encoder that carries neither.
Stamp(h, m, sec) ==
    <<h[1], h[2], ":", m[1], m[2], ":", sec[1], sec[2], ".", "0", "0">>

DurationLine(stamp) ==
    <<"D", "u", "r", "a", "t", "i", "o", "n", ":", " ">> \o stamp

TimeLine(stamp) == <<"t", "i", "m", "e", "=">> \o stamp

PlainLine == <<"x">>

\* The stderr lines an encoder prints in Spec and SpecWork.
StderrLines ==
    { PlainLine,
      DurationLine(Stamp(<<"0", "0">>, <<"0", "0">>, <<"0", "2">>))
        \o <<" ">> \o TimeLine(Stamp(<<"0", "0">>, <<"0", "0">>, <<"0", "1">>)) }

\* The stderr lines an encoder prints in SpecStream: durations of 4 s and
\* 0 s, a duration of 2 s with a position of 3 s on the same line, and a
\* position of 3 s after a duration written with a digit that is not ASCII.
StreamLines ==
    { PlainLine,
      DurationLine(Stamp(<<"0", "0">>, <<"0", "0">>, <<"0", "4">>)),
      DurationLine(Stamp(<<"0", "0">>, <<"0", "0">>, <<"0", "0">>)),
      DurationLine(Stamp(<<"0", "0">>, <<"0", "0">>, <<"0", "2">>))
        \o <<" ">> \o TimeLine(Stamp(<<"0", "0">>, <<"0", "0">>, <<"0", "3">>)),
      DurationLine(Stamp(<<"0", "0">>, <<"0", "0">>, <<"0", "U+0662">>))
        \o <<" ">> \o TimeLine(Stamp(<<"0", "0">>, <<"0", "0">>, <<"0", "3">>)) }

\* The lines of either set with what the worker reads from each, computed
\* once: the duration of the group duration_regex captures and the position
\* of the group time_regex captures, both through parse_time.
ReadLines ==
    [line \in StreamLines \cup StderrLines |->
       LET dcap == duration_regex(line)
           tcap == time_regex(line)
       IN [duration |-> IF dcap # None THEN parse_time(dcap[1]) ELSE None,
           time |-> IF tcap # None THEN parse_time(tcap[1]) ELSE None]]

\* An emitted event and what its payload carries besides the job id: the
\* line of a log event, the progress of a progress event, the exit code of an
\* error event.
Event(kind, val) == [kind |-> kind, val |-> val]

Emit(j, evs) == events' = [events EXCEPT ![j] = events[j] \o evs]

\* run_ffmpeg_worker up to the spawn: sidecar() or spawn() may fail, and the
\* error is returned by `?` before anything is emitted.
worker_spawn(j) ==
    /\ wpc[j] = "spawn"
    /\ \/ /\ wpc' = [wpc EXCEPT ![j] = "report_err"]
          /\ UNCHANGED proc
       \/ /\ wpc' = [wpc EXCEPT ![j] = "notify"]
          /\ proc' = [proc EXCEPT ![j] = "running"]
    /\ UNCHANGED <<chan, coordVars, max_concurrency, ctl, lastCall,
                   lastGoodSet, exit_code, total_duration, nlines, events,
                   histVars>>

\* tx.send(TaskStarted(id, child.pid())): the pid of job j's process is j.
worker_notify(j) ==
    /\ wpc[j] = "notify"
    /\ Len(chan) < budget.capacity
    /\ chan' = Append(chan, Msg("TaskStarted", jobId[j], j, j))
    /\ wpc' = [wpc EXCEPT ![j] = "stream"]
    /\ UNCHANGED <<coordVars, max_concurrency, ctl, lastCall, lastGoodSet,
                   proc, exit_code, total_duration, nlines, events, histVars>>

\* As worker_stderr, with lines still handled after the loop over the event
\* stream has ended.
worker_stderr_late(j, line) ==
    /\ wpc[j] \in {"stream", "report_ok", "report_err"}
    /\ nlines < budget.lines
    /\ nlines' = nlines + 1
    /\ Emit(j, <<Event("log", Some(line))>>)
    /\ UNCHANGED <<chan, coordVars, max_concurrency, ctl, lastCall,
                   lastGoodSet, wpc, proc, exit_code, total_duration,
                   histVars>>

\* As worker_stderr, with the duration taken from every line that matches
\* duration_regex.
worker_stderr_overwrite(j, line) ==
    /\ wpc[j] = "stream"
    /\ proc[j] \in {"running", "stopped", "exited", "killed"}
    /\ nlines < budget.lines
    /\ nlines' = nlines + 1
    /\ LET dur == IF ReadLines[line].duration # None
                  THEN ReadLines[line].duration
                  ELSE total_duration[j]
           cur == ReadLines[line].time
           prog == IF dur # None /\ cur # None
                   THEN <<Event("progress", Some(progress(cur[1], dur[1])))>>
                   ELSE <<>>
       IN /\ total_duration' = [total_duration EXCEPT ![j] = dur]
          /\ Emit(j, <<Event("log", Some(line))>> \o prog)
    /\ UNCHANGED <<chan, coordVars, max_concurrency, ctl, lastCall,
                   lastGoodSet, wpc, proc, exit_code, histVars>>

\* As worker_stderr, with the progress event emitted before the log event.
worker_stderr_progress_first(j, line) ==
    /\ wpc[j] = "stream"
    /\ proc[j] \in {"running", "stopped", "exited", "killed"}
    /\ nlines < budget.lines
    /\ nlines' = nlines + 1
    /\ LET dur == IF total_duration[j] = None
                  THEN ReadLines[line].duration
                  ELSE total_duration[j]
           cur == ReadLines[line].time
           prog == IF dur # None /\ cur # None
                   THEN <<Event("progress", Some(progress(cur[1], dur[1])))>>
                   ELSE <<>>
       IN /\ total_duration' = [total_duration EXCEPT ![j] = dur]
          /\ Emit(j, prog \o <<Event("log", Some(line))>>)
    /\ UNCHANGED <<chan, coordVars, max_concurrency, ctl, lastCall,
                   lastGoodSet, wpc, proc, exit_code, histVars>>

\* CommandEvent::Stderr arm: the log event, the duration cache, the progress.
worker_stderr(j, line) ==
    /\ wpc[j] = "stream"
    /\ proc[j] \in {"running", "stopped", "exited", "killed"}
    /\ nlines < budget.lines
    /\ nlines' = nlines + 1
    /\ LET dur == IF total_duration[j] = None
                  THEN ReadLines[line].duration
                  ELSE total_duration[j]
           cur == ReadLines[line].time
           prog == IF dur # None /\ cur # None
                   THEN <<Event("progress", Some(progress(cur[1], dur[1])))>>
                   ELSE <<>>
       IN /\ total_duration' = [total_duration EXCEPT ![j] = dur]
          /\ Emit(j, <<Event("log", Some(line))>> \o prog)
    /\ UNCHANGED <<chan, coordVars, max_concurrency, ctl, lastCall,
                   lastGoodSet, wpc, proc, exit_code, histVars>>

\* The encoder process ends by itself with an exit code.
process_exit(j, code) ==
    /\ proc[j] = "running"
    /\ proc' = [proc EXCEPT ![j] = "exited"]
    /\ exit_code' = [exit_code EXCEPT ![j] = Some(code)]
    /\ UNCHANGED <<chan, coordVars, max_concurrency, ctl, lastCall,
                   lastGoodSet, wpc, total_duration, nlines, events, histVars>>

\* As worker_terminated, with every recorded exit code taken for success.
worker_terminated_any_code(j) ==
    /\ wpc[j] = "stream"
    /\ proc[j] \in {"exited", "killed"}
    /\ IF exit_code[j] # None
       THEN /\ Emit(j, <<Event("completed", None)>>)
            /\ wpc' = [wpc EXCEPT ![j] = "report_ok"]
       ELSE /\ Emit(j, <<Event("error", exit_code[j])>>)
            /\ wpc' = [wpc EXCEPT ![j] = "report_err"]
    /\ proc' = [proc EXCEPT ![j] = "gone"]
    /\ exit_code' = [exit_code EXCEPT ![j] = None]
    /\ total_duration' = [total_duration EXCEPT ![j] = None]
    /\ UNCHANGED <<chan, coordVars, max_concurrency, ctl, lastCall,
                   lastGoodSet, nlines, histVars>>

\* The event stream ends (CommandEvent::Terminated, then the channel closes):
\* the terminal event is emitted from the recorded exit code.
worker_terminated(j) ==
    /\ wpc[j] = "stream"
    /\ proc[j] \in {"exited", "killed"}
    /\ IF exit_code[j] = Some(0)
       THEN /\ Emit(j, <<Event("completed", None)>>)
            /\ wpc' = [wpc EXCEPT ![j] = "report_ok"]
       ELSE /\ Emit(j, <<Event("error", exit_code[j])>>)
            /\ wpc' = [wpc EXCEPT ![j] = "report_err"]
    \* the function returns: its locals and the child handle are dropped
    /\ proc' = [proc EXCEPT ![j] = "gone"]
    /\ exit_code' = [exit_code EXCEPT ![j] = None]
    /\ total_duration' = [total_duration EXCEPT ![j] = None]
    /\ UNCHANGED <<chan, coordVars, max_concurrency, ctl, lastCall,
                   lastGoodSet, nlines, histVars>>

\* The task spawned by process_queue sends the worker's result.
\* worker_report with the TaskStarted message sent again behind the
\* terminal one.
worker_report_started_last(j) ==
    /\ wpc[j] \in {"report_ok", "report_err"}
    /\ Len(chan) + 1 < budget.capacity
    /\ chan' = chan \o <<Msg(IF wpc[j] = "report_ok" THEN "TaskCompleted"
                              ELSE "TaskError", jobId[j], j, 0),
                          Msg("TaskStarted", jobId[j], j, j)>>
    /\ wpc' = [wpc EXCEPT ![j] = "done"]
    /\ UNCHANGED <<coordVars, max_concurrency, ctl, lastCall, lastGoodSet,
                   proc, exit_code, total_duration, nlines, events, histVars>>

worker_report(j) ==
    /\ wpc[j] \in {"report_ok", "report_err"}
    /\ Len(chan) < budget.capacity
    /\ chan' = Append(chan, Msg(IF wpc[j] = "report_ok" THEN "TaskCompleted"
                                ELSE "TaskError", jobId[j], j, 0))
    /\ wpc' = [wpc EXCEPT ![j] = "done"]
    /\ UNCHANGED <<coordVars, max_concurrency, ctl, lastCall, lastGoodSet,
                   proc, exit_code, total_duration, nlines, events, histVars>>

(* ----------------------- pause / resume / cancel ----------------------- *)

\* The outcomes of an OS call on the process pid (libc::kill(pid, sig) == 0,
\* windows_suspend_resume, OpenProcess, TerminateProcess): it succeeds on a
\* live process; on one that has ended it succeeds or fails.
KillOutcomes(pid) ==
    IF proc[pid] \in {"running", "stopped"} THEN {TRUE} ELSE {TRUE, FALSE}

\* An OS call made by pause_task, resume_task or cancel_task and its outcome.
Sig(name, ok) == [sig |-> name, ok |-> ok]

\* The stop and continue primitives of the build.
StopPrimitive ==
    IF budget.platform = "unix" THEN "SIGSTOP" ELSE "NtSuspendProcess"

ContPrimitive ==
    IF budget.platform = "unix" THEN "SIGCONT" ELSE "NtResumeProcess"

\* The exit code of a process ended by cancel_task: none for SIGKILL, the 1
\* passed to TerminateProcess.
KilledCode == IF budget.platform = "unix" THEN None ELSE Some(1)

\* As pause_task, with Ok for an id that has no record (as cancel_task has).
pause_task_ok_missing(id) ==
    /\ ctl.pc = "idle"
    /\ IF id \in DOMAIN active_tasks
       THEN /\ ctl' = [pc |-> "signal", op |-> "pause", id |-> id,
                       pid |-> active_tasks[id]]
            /\ UNCHANGED lastCall
       ELSE /\ Return(Call("pause", id, 0, "Ok", 0, <<>>))
            /\ UNCHANGED ctl
    /\ UNCHANGED <<chan, coordVars, max_concurrency, lastGoodSet, workerVars,
                   histVars>>

\* pause_task: lock the table and look the id up; no record is TaskNotFound.
pause_task(id) ==
    /\ ctl.pc = "idle"
    /\ IF id \in DOMAIN active_tasks
       THEN /\ ctl' = [pc |-> "signal", op |-> "pause", id |-> id,
                       pid |-> active_tasks[id]]
            /\ UNCHANGED lastCall
       ELSE /\ Return(Call("pause", id, 0, "TaskNotFound", 0, <<>>))
            /\ UNCHANGED ctl
    /\ UNCHANGED <<chan, coordVars, max_concurrency, lastGoodSet, workerVars,
                   histVars>>

\* resume_task: lock the table and look the id up; no record is TaskNotFound.
resume_task(id) ==
    /\ ctl.pc = "idle"
    /\ IF id \in DOMAIN active_tasks
       THEN /\ ctl' = [pc |-> "signal", op |-> "resume", id |-> id,
                       pid |-> active_tasks[id]]
            /\ UNCHANGED lastCall
       ELSE /\ Return(Call("resume", id, 0, "TaskNotFound", 0, <<>>))
            /\ UNCHANGED ctl
    /\ UNCHANGED <<chan, coordVars, max_concurrency, lastGoodSet, workerVars,
                   histVars>>

\* As cancel_task, with TaskNotFound for an id that has no record (as
\* pause_task has).
cancel_task_not_found(id) ==
    /\ ctl.pc = "idle"
    /\ IF id \in DOMAIN active_tasks
       THEN /\ ctl' = [pc |-> "signal", op |-> "cancel", id |-> id,
                       pid |-> active_tasks[id]]
            /\ UNCHANGED lastCall
       ELSE /\ Return(Call("cancel", id, 0, "TaskNotFound", 0, <<>>))
            /\ UNCHANGED ctl
    /\ UNCHANGED <<chan, coordVars, max_concurrency, lastGoodSet, workerVars,
                   histVars>>

\* cancel_task: lock the table and look the id up; no record is Ok.
\* cancel_task taking a job that is still queued out of the queue.
cancel_task_dequeue(id) ==
    /\ ctl.pc = "idle"
    /\ IF id \in DOMAIN active_tasks
       THEN /\ ctl' = [pc |-> "signal", op |-> "cancel", id |-> id,
                       pid |-> active_tasks[id]]
            /\ UNCHANGED <<lastCall, queue>>
       ELSE /\ Return(Call("cancel", id, 0, "Ok", 0, <<>>))
            /\ queue' = SelectSeq(queue, LAMBDA t : t.id # id)
            /\ UNCHANGED ctl
    /\ UNCHANGED <<chan, running_tasks, active_tasks, max_concurrency,
                   lastGoodSet, workerVars, histVars>>

cancel_task(id) ==
    /\ ctl.pc = "idle"
    /\ IF id \in DOMAIN active_tasks
       THEN /\ ctl' = [pc |-> "signal", op |-> "cancel", id |-> id,
                       pid |-> active_tasks[id]]
            /\ UNCHANGED lastCall
       ELSE /\ Return(Call("cancel", id, 0, "Ok", 0, <<>>))
            /\ UNCHANGED ctl
    /\ UNCHANGED <<chan, coordVars, max_concurrency, lastGoodSet, workerVars,
                   histVars>>

\* As pause_signal, with the slot of the paused job given back to the queue.
pause_signal_frees_slot ==
    /\ ctl.pc = "signal" /\ ctl.op = "pause"
    /\ \E ok \in KillOutcomes(ctl.pid) :
         /\ proc' = IF ok /\ proc[ctl.pid] = "running"
                    THEN [proc EXCEPT ![ctl.pid] = "stopped"] ELSE proc
         /\ Return(Call("pause", ctl.id, 0, IF ok THEN "Ok" ELSE "Shell",
                             0, <<Sig(StopPrimitive, ok)>>))
    /\ ctl' = IdleCtl
    /\ running_tasks' = running_tasks \ {ctl.id}
    /\ UNCHANGED <<chan, queue, active_tasks, max_concurrency, lastGoodSet,
                   wpc, exit_code, total_duration, nlines, events, histVars>>

\* kill(pid, SIGSTOP) or windows_suspend_resume(pid, true) of pause_task,
\* called with the guard of the table alive; the guard is dropped at return.
pause_signal ==
    /\ ctl.pc = "signal" /\ ctl.op = "pause"
    /\ \E ok \in KillOutcomes(ctl.pid) :
         /\ proc' = IF ok /\ proc[ctl.pid] = "running"
                    THEN [proc EXCEPT ![ctl.pid] = "stopped"] ELSE proc
         /\ Return(Call("pause", ctl.id, 0, IF ok THEN "Ok" ELSE "Shell",
                             0, <<Sig(StopPrimitive, ok)>>))
    /\ ctl' = IdleCtl
    /\ UNCHANGED <<chan, coordVars, max_concurrency, lastGoodSet, wpc,
                   exit_code, total_duration, nlines, events, histVars>>

\* kill(pid, SIGCONT) or windows_suspend_resume(pid, false) of resume_task,
\* called with the guard of the table alive.
resume_signal ==
    /\ ctl.pc = "signal" /\ ctl.op = "resume"
    /\ \E ok \in KillOutcomes(ctl.pid) :
         /\ proc' = IF ok /\ proc[ctl.pid] = "stopped"
                    THEN [proc EXCEPT ![ctl.pid] = "running"] ELSE proc
         /\ Return(Call("resume", ctl.id, 0, IF ok THEN "Ok" ELSE "Shell",
                             0, <<Sig(ContPrimitive, ok)>>))
    /\ ctl' = IdleCtl
    /\ UNCHANGED <<chan, coordVars, max_concurrency, lastGoodSet, wpc,
                   exit_code, total_duration, nlines, events, histVars>>

\* The OS calls of cancel_task and its result: cont, opened and term are the
\* outcomes of the continue primitive, of OpenProcess and of the terminate
\* primitive. cfg(unix): kill(SIGCONT), result dropped, then kill(SIGKILL),
\* whose failure is Shell. cfg(windows): windows_suspend_resume, result
\* dropped, then OpenProcess, whose failure is Shell, then TerminateProcess,
\* result dropped.
cancel_calls(cont, opened, term) ==
    IF budget.platform = "unix"
    THEN [sigs |-> <<Sig("SIGCONT", cont), Sig("SIGKILL", term)>>,
          result |-> IF term THEN "Ok" ELSE "Shell",
          terminated |-> term]
    ELSE IF opened
    THEN [sigs |-> <<Sig("NtResumeProcess", cont), Sig("OpenProcess", TRUE),
                     Sig("TerminateProcess", term)>>,
          result |-> "Ok",
          terminated |-> term]
    ELSE [sigs |-> <<Sig("NtResumeProcess", cont), Sig("OpenProcess", FALSE)>>,
          result |-> "Shell",
          terminated |-> FALSE]

\* As cancel_signal, giving up when the continue primitive fails.
cancel_signal_strict ==
    /\ ctl.pc = "signal" /\ ctl.op = "cancel"
    /\ \E cont \in KillOutcomes(ctl.pid), term \in KillOutcomes(ctl.pid) :
         LET c == cancel_calls(cont, TRUE, term) IN
         IF cont
         THEN /\ IF c.terminated /\ proc[ctl.pid] \in {"running", "stopped"}
                 THEN /\ proc' = [proc EXCEPT ![ctl.pid] = "killed"]
                      /\ exit_code' = [exit_code EXCEPT ![ctl.pid] = KilledCode]
                 ELSE UNCHANGED <<proc, exit_code>>
              /\ Return(Call("cancel", ctl.id, 0, c.result, 0, c.sigs))
         ELSE /\ UNCHANGED <<proc, exit_code>>
              /\ Return(Call("cancel", ctl.id, 0, "Shell", 0,
                             <<Sig(ContPrimitive, FALSE)>>))
    /\ ctl' = IdleCtl
    /\ UNCHANGED <<chan, coordVars, max_concurrency, lastGoodSet, wpc,
                   total_duration, nlines, events, histVars>>

\* As cancel_signal, removing the record of the job and its entry in the
\* running set itself.
cancel_signal_release ==
    /\ ctl.pc = "signal" /\ ctl.op = "cancel"
    /\ \E cont \in KillOutcomes(ctl.pid), term \in KillOutcomes(ctl.pid) :
         LET c == cancel_calls(cont, TRUE, term) IN
         /\ IF c.terminated /\ proc[ctl.pid] \in {"running", "stopped"}
            THEN /\ proc' = [proc EXCEPT ![ctl.pid] = "killed"]
                 /\ exit_code' = [exit_code EXCEPT ![ctl.pid] = KilledCode]
            ELSE UNCHANGED <<proc, exit_code>>
         /\ Return(Call("cancel", ctl.id, 0, c.result, 0, c.sigs))
    /\ ctl' = IdleCtl
    /\ active_tasks' = MapRemove(active_tasks, ctl.id)
    /\ running_tasks' = running_tasks \ {ctl.id}
    /\ UNCHANGED <<chan, queue, max_concurrency, lastGoodSet, wpc,
                   total_duration, nlines, events, histVars>>

\* The OS calls of cancel_task, made with the guard of the table alive: the
\* process, if it still lives, is ended by a terminate call that succeeds.
cancel_signal ==
    /\ ctl.pc = "signal" /\ ctl.op = "cancel"
    /\ \E cont \in KillOutcomes(ctl.pid), term \in KillOutcomes(ctl.pid),
          opened \in IF budget.platform = "unix" THEN {TRUE}
                     ELSE KillOutcomes(ctl.pid) :
         LET c == cancel_calls(cont, opened, term) IN
         /\ IF c.terminated /\ proc[ctl.pid] \in {"running", "stopped"}
            THEN /\ proc' = [proc EXCEPT ![ctl.pid] = "killed"]
                 /\ exit_code' = [exit_code EXCEPT ![ctl.pid] = KilledCode]
            ELSE UNCHANGED <<proc, exit_code>>
         /\ Return(Call("cancel", ctl.id, 0, c.result, 0, c.sigs))
    /\ ctl' = IdleCtl
    /\ UNCHANGED <<chan, coordVars, max_concurrency, lastGoodSet, wpc,
                   total_duration, nlines, events, histVars>>

(* ---------------------------- specification ---------------------------- *)

Next ==
    \/ \E id \in JobIds : \E inp \in SubmittedInputs(id) :
         queue_conversion(id, inp)
    \/ current_max_concurrency
    \/ \E v \in 0..MaxLimit : update_max_concurrency(v)
    \/ coordinator_enqueue
    \/ coordinator_task_started
    \/ coordinator_task_completed
    \/ coordinator_task_error
    \/ \E j \in Jobs : worker_spawn(j)
    \/ \E j \in Jobs : worker_notify(j)
    \/ \E j \in Jobs, line \in StderrLines : worker_stderr(j, line)
    \/ \E j \in Jobs, code \in {0, 1} : process_exit(j, code)
    \/ \E j \in Jobs : worker_terminated(j)
    \/ \E j \in Jobs : worker_report(j)
    \/ \E id \in JobIds : pause_task(id)
    \/ \E id \in JobIds : resume_task(id)
    \/ \E id \in JobIds : cancel_task(id)
    \/ pause_signal
    \/ resume_signal
    \/ cancel_signal

Spec == Init /\ [][Next]_vars

\* The API calls and the jobs' life cycle, without the stderr lines.
NextCalls ==
    \/ \E id \in JobIds : \E inp \in SubmittedInputs(id) :
         queue_conversion(id, inp)
    \/ current_max_concurrency
    \/ \E v \in 0..MaxLimit : update_max_concurrency(v)
    \/ coordinator_enqueue
    \/ coordinator_task_started
    \/ coordinator_task_completed
    \/ coordinator_task_error
    \/ \E j \in Jobs : worker_spawn(j)
    \/ \E j \in Jobs : worker_notify(j)
    \/ \E j \in Jobs, code \in {0, 1} : process_exit(j, code)
    \/ \E j \in Jobs : worker_terminated(j)
    \/ \E j \in Jobs : worker_report(j)
    \/ \E id \in JobIds : pause_task(id)
    \/ \E id \in JobIds : resume_task(id)
    \/ \E id \in JobIds : cancel_task(id)
    \/ pause_signal
    \/ resume_signal
    \/ cancel_signal

SpecCalls == InitCalls /\ [][NextCalls]_vars

\* Every operation with one job, on either platform.
SpecWork == InitWork /\ [][Next]_vars

\* The life of a job whose encoder prints the lines of StreamLines.
NextStream ==
    \/ \E id \in JobIds : \E inp \in SubmittedInputs(id) :
         queue_conversion(id, inp)
    \/ coordinator_enqueue
    \/ coordinator_task_started
    \/ coordinator_task_completed
    \/ coordinator_task_error
    \/ \E j \in Jobs : worker_spawn(j)
    \/ \E j \in Jobs : worker_notify(j)
    \/ \E j \in Jobs, line \in StreamLines : worker_stderr(j, line)
    \/ \E j \in Jobs, code \in {0, 1} : process_exit(j, code)
    \/ \E j \in Jobs : worker_terminated(j)
    \/ \E j \in Jobs : worker_report(j)

SpecStream == InitStream /\ [][NextStream]_vars

\* The API calls with a channel of capacity MaxChannel.
SpecFull == InitFull /\ [][NextCalls]_vars

\* The API calls with their OS calls recorded, on either platform.
SpecSignals == InitSignals /\ [][NextCalls]_vars

\* Admission, the limit, the coordinator and the workers' life cycle.
NextSched ==
    \/ \E id \in JobIds : \E inp \in SubmittedInputs(id) :
         queue_conversion(id, inp)
    \/ \E v \in 0..MaxLimit : update_max_concurrency(v)
    \/ coordinator_enqueue
    \/ coordinator_task_started
    \/ coordinator_task_completed
    \/ coordinator_task_error
    \/ \E j \in Jobs : worker_spawn(j)
    \/ \E j \in Jobs : worker_notify(j)
    \/ \E j \in Jobs, code \in {0, 1} : process_exit(j, code)
    \/ \E j \in Jobs : worker_terminated(j)
    \/ \E j \in Jobs : worker_report(j)

SpecSched == InitSched /\ [][NextSched]_vars

\* One pass of the coordinator loop: a message is received and its arm run.
CoordinatorReceive ==
    \/ coordinator_enqueue
    \/ coordinator_task_started
    \/ coordinator_task_completed
    \/ coordinator_task_error

\* The next step of the worker task of job j, or the exit of its process.
WorkerStep(j) ==
    \/ worker_spawn(j)
    \/ worker_notify(j)
    \/ \E code \in {0, 1} : process_exit(j, code)
    \/ worker_terminated(j)
    \/ worker_report(j)

\* SpecSched with the scheduling of the runtime: the coordinator task keeps
\* taking messages while there are any, each worker task runs on to its
\* report, and every process that runs exits. Submissions and changes of
\* the limit come as the callers please.
SpecSchedFair ==
    /\ SpecSched
    /\ WF_vars(CoordinatorReceive)
    /\ \A j \in 1..MaxSchedJobs : WF_vars(WorkerStep(j))

SpecFifo == InitFifo /\ [][NextSched]_vars

InitControl ==
    /\ InitState
    /\ budget = [jobs |-> MaxControlJobs, watch |-> TRUE,
                 platform |-> "unix", capacity |-> CHANNEL_CAPACITY,
                 lines |-> 0]

\* The manager with its control calls, the output of the processes left
\* unread.
NextControl ==
    \/ \E id \in JobIds : \E inp \in SubmittedInputs(id) :
         queue_conversion(id, inp)
    \/ update_max_concurrency(1)
    \/ coordinator_enqueue
    \/ coordinator_task_started
    \/ coordinator_task_completed
    \/ coordinator_task_error
    \/ \E j \in Jobs : worker_spawn(j)
    \/ \E j \in Jobs : worker_notify(j)
    \/ \E j \in Jobs, code \in {0, 1} : process_exit(j, code)
    \/ \E j \in Jobs : worker_terminated(j)
    \/ \E j \in Jobs : worker_report(j)
    \/ \E id \in JobIds : pause_task(id)
    \/ \E id \in JobIds : resume_task(id)
    \/ \E id \in JobIds : cancel_task(id)
    \/ pause_signal
    \/ resume_signal
    \/ cancel_signal

SpecControl == InitControl /\ [][NextControl]_vars

InitBlocked ==
    /\ InitState
    /\ budget = [jobs |-> MaxBlockedJobs, watch |-> FALSE,
                 platform |-> "unix", capacity |-> MaxChannel, lines |-> 0]

\* The manager with a channel smaller than the number of senders.
SpecBlocked == InitBlocked /\ [][NextControl]_vars

(* ---------------------------- pure functions --------------------------- *)

\* The state of a specification that evaluates one function: the manager as
\* constructed, unused.
InitPure ==
    /\ InitManager
    /\ budget = [jobs |-> 0, watch |-> FALSE, platform |-> "unix",
                 capacity |-> CHANNEL_CAPACITY, lines |-> 0]

\* The pieces the time strings are made of: two digits, one digit, seconds
\* with hundredths, nothing, a letter, a signed number, a digit that is not
\* ASCII.
TimeParts ==
    << <<"0", "0">>, <<"0", "1">>, <<"1", "0", ".", "5", "0">>, <<"5">>,
       <<>>, <<"x">>, <<"-", "1">>, <<"0", "U+0662">> >>

\* parts joined by colons.
RECURSIVE JoinColon(_)
JoinColon(parts) ==
    IF Len(parts) = 1 THEN parts[1]
    ELSE parts[1] \o <<":">> \o JoinColon(Tail(parts))

\* The time strings parse_time is called with: 1 to MaxTimeParts pieces.
TimeStrings ==
    UNION {{JoinColon([i \in 1..n |-> TimeParts[f[i]]]) :
              f \in [1..n -> 1..Len(TimeParts)]} : n \in 1..MaxTimeParts}

InitTime ==
    /\ InitPure
    /\ \E str \in TimeStrings :
         eval = [fn |-> "parse_time", arg |-> str, out |-> <<>>]

\* A call of parse_time(eval.arg).
call_parse_time ==
    /\ eval.fn = "parse_time"
    /\ eval.out = <<>>
    /\ eval' = [eval EXCEPT !.out = <<parse_time(eval.arg)>>]
    /\ UNCHANGED managerVars

NextTime == call_parse_time

SpecTime == InitTime /\ [][NextTime]_vars

\* str::trim on a string whose only white space is " ".
RECURSIVE TrimStart(_)
TrimStart(str) ==
    IF str # <<>> /\ Head(str) = " " THEN TrimStart(Tail(str)) ELSE str

RECURSIVE TrimEnd(_)
TrimEnd(str) ==
    IF str # <<>> /\ str[Len(str)] = " "
    THEN TrimEnd(SubSeq(str, 1, Len(str) - 1)) ELSE str

Trim(str) == TrimEnd(TrimStart(str))

\* The index of the last "/" of path at or before e, 0 if there is none.
LastSeparator(path, e) ==
    LET at == {i \in 1..e : path[i] = "/"}
    IN IF at = {} THEN 0 ELSE CHOOSE k \in at : \A m \in at : m <= k

\* Path::parent of a path that ends with a file name: what is before the
\* last separator, the root for a file of the root directory, the empty path
\* for a bare file name.
PathParent(path) ==
    LET i == LastSeparator(path, Len(path))
    IN IF i = 0 THEN <<>> ELSE IF i = 1 THEN <<"/">> ELSE SubSeq(path, 1, i - 1)

\* PathBuf::push on Unix: an absolute path replaces the buffer, a relative
\* one is appended after a separator unless the buffer is empty or ends with
\* one.
PathPush(buf, path) ==
    IF path # <<>> /\ Head(path) = "/" THEN path
    ELSE IF buf = <<>> \/ buf[Len(buf)] = "/" THEN buf \o path
    ELSE buf \o <<"/">> \o path

\* Path::file_name: the place <<first, last>> of the last component of
\* path[1..e] if it is a normal one: separators and "." at the end are
\* passed over; "..", a leading "." and the root have no file name.
RECURSIVE FileNameAt(_, _)
FileNameAt(path, e) ==
    IF e = 0 THEN None
    ELSE IF path[e] = "/" THEN FileNameAt(path, e - 1)
    ELSE LET first == LastSeparator(path, e) + 1
             seg == SubSeq(path, first, e)
         IN IF seg = <<".">>
            THEN IF first = 1 THEN None ELSE FileNameAt(path, first - 1)
            ELSE IF seg = <<".", ".">> THEN None
            ELSE Some(<<first, e>>)

\* rsplit_file_at_dot: the length of the stem of a file name and whether the
\* name has an extension. A dot that starts the name separates nothing.
FileStemLen(name) ==
    LET i == CHOOSE k \in 0..Len(name) :
               /\ k = 0 \/ name[k] = "."
               /\ \A m \in (k + 1)..Len(name) : name[m] # "."
    IN IF i <= 1 THEN Len(name) ELSE i - 1

PathExtensionIsNone(path) ==
    LET at == FileNameAt(path, Len(path))
    IN \/ at = None
       \/ LET name == SubSeq(path, at[1][1], at[1][2])
          IN FileStemLen(name) = Len(name)

\* PathBuf::set_extension: nothing without a file name; otherwise the buffer
\* is cut right after the stem and "." and the extension are appended.
PathSetExtension(path, ext) ==
    LET at == FileNameAt(path, Len(path))
    IN IF at = None THEN path
       ELSE LET name == SubSeq(path, at[1][1], at[1][2])
                cut == SubSeq(path, 1, at[1][1] + FileStemLen(name) - 1)
            IN IF ext = <<>> THEN cut ELSE cut \o <<".">> \o ext

build_output_path(file_path, container, output_name) ==
    LET custom == IF output_name = None THEN None
                  ELSE IF Trim(output_name[1]) = <<>> THEN None
                  ELSE Some(Trim(output_name[1]))
    IN IF custom # None
       THEN LET output == PathPush(PathParent(file_path), custom[1])
            IN IF PathExtensionIsNone(output)
               THEN PathSetExtension(output, container)
               ELSE output
       ELSE file_path
            \o <<"_", "c", "o", "n", "v", "e", "r", "t", "e", "d", ".">>
            \o container

\* The source files: in a directory, in the root directory, a bare name.
SourcePaths ==
    { <<"/", "d", "/", "s", ".", "m">>, <<"/", "s", ".", "m">>,
      <<"s", ".", "m">> }

Containers == { <<"m", "p", "4">> }

\* The output names: none, and every string of at most MaxNameLen letters,
\* dots, separators and spaces.
OutputNames ==
    {None} \cup {Some(str) : str \in UNION {[1..n -> {"n", ".", "/", " "}] :
                                             n \in 0..MaxNameLen}}

InitPath ==
    /\ InitPure
    /\ \E file_path \in SourcePaths, container \in Containers,
          output_name \in OutputNames :
         eval = [fn |-> "build_output_path",
                 arg |-> <<file_path, container, output_name>>, out |-> <<>>]

\* A call of build_output_path on the three arguments of eval.arg.
call_build_output_path ==
    /\ eval.fn = "build_output_path"
    /\ eval.out = <<>>
    /\ eval' = [eval EXCEPT
                  !.out = <<build_output_path(eval.arg[1], eval.arg[2],
                                              eval.arg[3])>>]
    /\ UNCHANGED managerVars

NextPath == call_build_output_path

SpecPath == InitPath /\ [][NextPath]_vars

\* The (file, config) pairs validate_task_input is called with: a regular
\* file, a missing one, a directory; widths and heights absent, -1, 0, below
\* -1, positive, signed, not integers; bitrates positive, zero, negative, not
\* numbers, and the text of the f64 that is not a number.
DimensionTexts ==
    {None, Some("-1"), Some("0"), Some("-2"), Some("1280"), Some("+5"),
     Some("1.5"), Some("abc")}

BitrateTexts == {"5000", "2.5", "0", "-5", "abc", "NaN"}

ValidationInputs ==
    {[file |-> f, config |-> Config(res, w, h, mode, rate, container)] :
       f \in {"file", "missing", "dir"}, res \in {"original", "custom"},
       w \in DimensionTexts, h \in DimensionTexts, mode \in {"crf", "bitrate"},
       rate \in BitrateTexts, container \in {"mp4", "MP3"}}

InitValidate ==
    /\ InitPure
    /\ \E inp \in ValidationInputs :
         eval = [fn |-> "validate_task_input", arg |-> inp, out |-> <<>>]

\* A call of validate_task_input on the file and the config of eval.arg.
call_validate_task_input ==
    /\ eval.fn = "validate_task_input"
    /\ eval.out = <<>>
    /\ eval' = [eval EXCEPT
                  !.out = <<validate_task_input(eval.arg.file,
                                                eval.arg.config)>>]
    /\ UNCHANGED managerVars

NextValidate == call_validate_task_input

SpecValidate == InitValidate /\ [][NextValidate]_vars

(* ----------------------------- estimation ------------------------------ *)

RatSub(a, b) == RatAdd(a, [n |-> -b.n, d |-> b.d])

\* a / b for b > 0.
RatDiv(a, b) == RatMul(a, [n |-> b.d, d |-> b.n])

RatMax(a, b) == IF RatLess(a, b) THEN b ELSE a

\* f64::round: to the nearest integer, halves away from zero.
Round(r) ==
    LET q == Abs(r.n) \div r.d
        rest == Abs(r.n) % r.d
        up == IF rest >= r.d - rest THEN q + 1 ELSE q
    IN IF r.n >= 0 THEN up ELSE -up

\* f64::round followed by the cast to u32, which sends what is below zero
\* to 0; the values met stay far below the top of u32.
RoundU32(r) == IF Round(r) < 0 THEN 0 ELSE Round(r)

RECURSIVE Pow2(_)
Pow2(k) == IF k = 0 THEN 1 ELSE 2 * Pow2(k - 1)

\* 2^(i/6) for i = 0..5 as fractions of small terms, each within one part
\* in a hundred of the power: 1.122, 1.260, 1.414, 1.587, 1.782.
SixthRoots ==
    <<Rat(1, 1), Rat(9, 8), Rat(5, 4), Rat(7, 5), Rat(8, 5), Rat(9, 5)>>

\* 2f64.powf(x / 6.0) for x a whole number of sixths, and for any other x
\* the power of the nearest whole number.
Powf2Sixths(x) ==
    LET k == Round(x)
        e == k \div 6
        whole == IF e >= 0 THEN Rat(Pow2(e), 1) ELSE Rat(1, Pow2(-e))
    IN RatMul(whole, SixthRoots[(k % 6) + 1])

FALLBACK_AUDIO_BITRATE_KBPS == 128

CONTAINER_CONTENT_RATIO == Rat(95, 100)

DEFAULT_H264_BITS_PER_PIXEL == Rat(75, 1000)

DEFAULT_H265_BITS_PER_PIXEL == Rat(40, 1000)

DEFAULT_VP9_BITS_PER_PIXEL == Rat(50, 1000)

DEFAULT_AV1_BITS_PER_PIXEL == Rat(32, 1000)

DEFAULT_PRORES_BITS_PER_PIXEL == Rat(19, 10)

VideoDimensions(w, h) == [width |-> w, height |-> h]

pixel_rate(dim, fps) == RatMul(Rat(dim.width * dim.height, 1), fps)

DEFAULT_DIMENSIONS == VideoDimensions(1280, 720)

DEFAULT_ASPECT_RATIO == Rat(16, 9)

DEFAULT_FRAME_RATE == Rat(30, 1)

\* str::trim on the texts the model submits.
TrimText(s) ==
    CASE s = " 128 " -> "128"
      [] s = " " -> ""
      [] OTHER -> s

\* str::parse::<f64> on the texts the estimate is given.
ParseNumber(s) ==
    CASE s = "128" -> Some(Rat(128, 1))
      [] s = "192" -> Some(Rat(192, 1))
      [] s = "30" -> Some(Rat(30, 1))
      [] s = "60" -> Some(Rat(60, 1))
      [] s = "4128000" -> Some(Rat(4128000, 1))
      [] OTHER -> ParseF64(s)

\* str::to_lowercase on the codec and container names the model submits.
LowerName(s) ==
    CASE s = "COPY" -> "copy"
      [] s = "PCM_S16LE" -> "pcm_s16le"
      [] OTHER -> ToLowercase(s)

parse_probe_bitrate(raw) ==
    IF raw = None THEN None
    ELSE LET text == TrimText(raw[1])
             numeric == ParseNumber(text)
         IN IF LowerName(text) = "n/a" \/ text = "" THEN None
            ELSE IF numeric = None THEN None
            ELSE IF F64Le(numeric[1], Rat(0, 1)) THEN None
            ELSE Some(RatDiv(numeric[1], Rat(1000, 1)))

\* The durations the estimate is given, written with colons.
ClockSeconds(s) ==
    CASE s = "00:01:00" -> Some(Rat(60, 1))
      [] OTHER -> None

parse_duration_to_seconds(duration) ==
    IF duration = None THEN None
    ELSE IF ParseNumber(duration[1]) # None THEN ParseNumber(duration[1])
    ELSE ClockSeconds(duration[1])

\* The resolutions the probe reports.
parse_resolution(metadata_resolution) ==
    IF metadata_resolution = None THEN None
    ELSE CASE metadata_resolution[1] = "1920x1080" -> Some(<<1920, 1080>>)
           [] OTHER -> None

metadata_dimensions(metadata) ==
    IF metadata = None THEN None
    ELSE LET meta == metadata[1]
             parsed == parse_resolution(meta.resolution)
         IN IF meta.width # None /\ meta.height # None
               /\ meta.width[1] > 0 /\ meta.height[1] > 0
            THEN Some(VideoDimensions(meta.width[1], meta.height[1]))
            ELSE IF parsed = None THEN None
            ELSE Some(VideoDimensions(parsed[1][1], parsed[1][2]))

nominal_width_for_height(height) ==
    CASE height = 2160 -> 3840
      [] height = 1440 -> 2560
      [] height = 1080 -> 1920
      [] height = 720 -> 1280
      [] height = 576 -> 1024
      [] height = 480 -> 854
      [] OTHER -> RoundU32(RatMul(Rat(height, 1), DEFAULT_ASPECT_RATIO))

AtLeastOne(n) == IF n < 1 THEN 1 ELSE n

derive_dimension_from_aspect(known, aspect, is_width_known) ==
    IF is_width_known
    THEN VideoDimensions(known,
                         AtLeastOne(Round(RatDiv(Rat(known, 1), aspect))))
    ELSE VideoDimensions(AtLeastOne(Round(RatMul(Rat(known, 1), aspect))),
                         known)

resolution_from_height(height, source) ==
    LET width ==
          IF height = 0 THEN DEFAULT_DIMENSIONS.width
          ELSE IF source # None
          THEN AtLeastOne(Round(RatMul(Rat(height, 1),
                                       Rat(source[1].width, source[1].height))))
          ELSE nominal_width_for_height(height)
    IN VideoDimensions(width, AtLeastOne(height))

\* parse_custom_dimension: Ok(None), Ok(Some(n)) or the error.
parse_custom_dimension(value) ==
    IF value = None THEN [ok |-> None]
    ELSE LET trimmed == TrimText(value[1])
             parsed == ParseI32(trimmed)
         IN IF trimmed = "" \/ trimmed = "-1" THEN [ok |-> None]
            ELSE IF parsed = None THEN [err |-> "InvalidInput"]
            ELSE IF parsed[1] <= 0 THEN [err |-> "InvalidInput"]
            ELSE [ok |-> Some(parsed[1])]

IsErr(r) == "err" \in DOMAIN r

custom_dimensions(config, source) ==
    LET parsed_width == parse_custom_dimension(config.custom_width)
        parsed_height == parse_custom_dimension(config.custom_height)
        aspect == IF source = None THEN DEFAULT_ASPECT_RATIO
                  ELSE Rat(source[1].width, source[1].height)
    IN IF IsErr(parsed_width) THEN parsed_width
       ELSE IF IsErr(parsed_height) THEN parsed_height
       ELSE LET w == parsed_width.ok
                h == parsed_height.ok
            IN IF w # None /\ h # None
               THEN [ok |-> VideoDimensions(w[1], h[1])]
               ELSE IF w # None
               THEN [ok |-> derive_dimension_from_aspect(w[1], aspect, TRUE)]
               ELSE IF h # None
               THEN [ok |-> derive_dimension_from_aspect(h[1], aspect, FALSE)]
               ELSE [ok |-> UnwrapOr(source, DEFAULT_DIMENSIONS)]

determine_target_dimensions(config, metadata) ==
    LET source_dimensions == metadata_dimensions(metadata)
    IN CASE config.resolution = "original" ->
              [ok |-> UnwrapOr(source_dimensions, DEFAULT_DIMENSIONS)]
         [] config.resolution = "1080p" ->
              [ok |-> resolution_from_height(1080, source_dimensions)]
         [] config.resolution = "720p" ->
              [ok |-> resolution_from_height(720, source_dimensions)]
         [] config.resolution = "480p" ->
              [ok |-> resolution_from_height(480, source_dimensions)]
         [] config.resolution = "custom" ->
              custom_dimensions(config, source_dimensions)
         [] OTHER -> [ok |-> UnwrapOr(source_dimensions, DEFAULT_DIMENSIONS)]

determine_target_fps(config, metadata) ==
    IF config.fps = "original"
    THEN [ok |-> IF metadata = None THEN DEFAULT_FRAME_RATE
                 ELSE UnwrapOr(metadata[1].frame_rate, DEFAULT_FRAME_RATE)]
    ELSE LET parsed == ParseNumber(TrimText(config.fps))
         IN IF parsed = None THEN [err |-> "InvalidInput"]
            ELSE IF F64Le(parsed[1], Rat(0, 1)) THEN [err |-> "InvalidInput"]
            ELSE [ok |-> parsed[1]]

\* str::replace(',', ".") on the texts the model submits.
ReplaceComma(s) ==
    CASE s = "2,5" -> "2.5"
      [] OTHER -> s

parse_config_bitrate(value) ==
    LET trimmed == TrimText(value)
        parsed == ParseNumber(ReplaceComma(trimmed))
    IN IF trimmed = "" THEN [err |-> "InvalidInput"]
       ELSE IF parsed = None THEN [err |-> "InvalidInput"]
       ELSE IF F64Le(parsed[1], Rat(0, 1)) THEN [err |-> "InvalidInput"]
       ELSE [ok |-> parsed[1]]

\* The ids of ids in their order, each once.
RECURSIVE Dedup(_, _)
Dedup(ids, seen) ==
    IF ids = <<>> THEN <<>>
    ELSE IF Head(ids) \in seen THEN Dedup(Tail(ids), seen)
    ELSE <<Head(ids)>> \o Dedup(Tail(ids), seen \cup {Head(ids)})

resolve_audio_track_ids(config, metadata, audio_only) ==
    IF config.selected_audio_tracks # <<>>
    THEN Dedup(config.selected_audio_tracks, {})
    ELSE IF metadata # None /\ metadata[1].audio_tracks # <<>>
    THEN <<metadata[1].audio_tracks[1].index>>
    ELSE IF audio_only THEN <<0>>
    ELSE <<>>

\* The first track of tracks with index id, or None.
FindTrack(tracks, id) ==
    LET at == {i \in 1..Len(tracks) : tracks[i].index = id}
    IN IF at = {} THEN None
       ELSE Some(tracks[CHOOSE i \in at : \A k \in at : i <= k])

\* The sum of the known bitrates of the tracks of meta named by track_ids.
RECURSIVE KnownBitrateSum(_, _)
KnownBitrateSum(track_ids, meta) ==
    IF track_ids = <<>> THEN Rat(0, 1)
    ELSE LET track == FindTrack(meta.audio_tracks, Head(track_ids))
             br == IF track = None THEN None ELSE track[1].bitrate_kbps
         IN RatAdd(IF br = None THEN Rat(0, 1) ELSE br[1],
                   KnownBitrateSum(Tail(track_ids), meta))

\* The sum over track_ids of each track's bitrate, the fallback standing for
\* every bitrate that is not known.
RECURSIVE FallbackBitrateSum(_, _)
FallbackBitrateSum(track_ids, tracks) ==
    IF track_ids = <<>> THEN Rat(0, 1)
    ELSE LET track == FindTrack(tracks, Head(track_ids))
             br == IF track = None THEN None ELSE track[1].bitrate_kbps
         IN RatAdd(UnwrapOr(br, Rat(FALLBACK_AUDIO_BITRATE_KBPS, 1)),
                   FallbackBitrateSum(Tail(track_ids), tracks))

\* estimate_audio_bitrate_kbps with the fallback taken track by track, with
\* or without metadata.
estimate_audio_bitrate_kbps_per_track(config, metadata, audio_only) ==
    LET track_ids == resolve_audio_track_ids(config, metadata, audio_only)
        count == Rat(Len(track_ids), 1)
        tracks == IF metadata = None THEN <<>> ELSE metadata[1].audio_tracks
        per_track == parse_config_bitrate(config.audio_bitrate)
    IN IF track_ids = <<>> THEN [ok |-> Rat(0, 1)]
       ELSE IF LowerName(config.audio_codec) = "copy"
       THEN [ok |-> FallbackBitrateSum(track_ids, tracks)]
       ELSE IF IsErr(per_track) THEN per_track
       ELSE [ok |-> RatMul(per_track.ok, count)]

\* str::starts_with("pcm_") on the lower-cased codec names.
StartsWithPcm(s) == s \in {"pcm_s16le", "pcm_s24le"}

estimate_audio_bitrate_kbps(config, metadata, audio_only) ==
    LET track_ids == resolve_audio_track_ids(config, metadata, audio_only)
        count == Rat(Len(track_ids), 1)
        sum == KnownBitrateSum(track_ids, metadata[1])
        parsed == UnwrapOr(ParseNumber(config.audio_bitrate), Rat(0, 1))
        bitrate == IF RatLess(Rat(0, 1), parsed) THEN parsed
                   ELSE Rat(1536, 1)
        per_track == parse_config_bitrate(config.audio_bitrate)
    IN IF track_ids = <<>> THEN [ok |-> Rat(0, 1)]
       ELSE IF LowerName(config.audio_codec) = "copy" /\ metadata # None
       THEN IF RatLess(Rat(0, 1), sum) THEN [ok |-> sum]
            ELSE [ok |-> RatMul(Rat(FALLBACK_AUDIO_BITRATE_KBPS, 1), count)]
       ELSE IF StartsWithPcm(LowerName(config.audio_codec))
       THEN [ok |-> RatMul(bitrate, count)]
       ELSE IF IsErr(per_track) THEN per_track
       ELSE [ok |-> RatMul(per_track.ok, count)]

\* container_overhead_factor growing with the concurrency limit in force.
container_overhead_factor_per_slot(container) ==
    Rat(100 + max_concurrency, 100)

container_overhead_factor(container) ==
    CASE ToLowercase(container) \in {"ts", "m2ts"} -> Rat(104, 100)
      [] ToLowercase(container) \in {"mkv", "webm"} -> Rat(101, 100)
      [] ToLowercase(container) \in {"mp4", "m4v", "mov"} -> Rat(1008, 1000)
      [] OTHER -> Rat(101, 100)

\* The sum of the known bitrates of tracks.
RECURSIVE AudioSum(_)
AudioSum(tracks) ==
    IF tracks = <<>> THEN Rat(0, 1)
    ELSE RatAdd(UnwrapOr(Head(tracks).bitrate_kbps, Rat(0, 1)),
                AudioSum(Tail(tracks)))

source_video_bitrate_kbps(metadata) ==
    IF metadata = None THEN None
    ELSE LET meta == metadata[1]
             container_kbps == parse_probe_bitrate(meta.bitrate)
         IN IF meta.video_bitrate_kbps # None
               /\ RatLess(Rat(0, 1), meta.video_bitrate_kbps[1])
            THEN meta.video_bitrate_kbps
            ELSE IF container_kbps = None THEN None
            ELSE Some(RatMax(RatSub(RatMul(container_kbps[1],
                                           CONTAINER_CONTENT_RATIO),
                                    AudioSum(meta.audio_tracks)),
                             Rat(0, 1)))

CodecReference(crf, bpp) ==
    [reference_crf |-> Rat(crf, 1), reference_bits_per_pixel |-> bpp]

codec_reference(codec) ==
    CASE LowerName(codec) \in {"libx265", "h265", "hevc"} ->
           CodecReference(28, DEFAULT_H265_BITS_PER_PIXEL)
      [] LowerName(codec) \in {"libvpx-vp9", "vp9"} ->
           CodecReference(31, DEFAULT_VP9_BITS_PER_PIXEL)
      [] LowerName(codec) \in {"libaom-av1", "av1", "libsvtav1"} ->
           CodecReference(32, DEFAULT_AV1_BITS_PER_PIXEL)
      [] LowerName(codec) \in {"prores", "prores_ks"} ->
           CodecReference(9, DEFAULT_PRORES_BITS_PER_PIXEL)
      [] LowerName(codec) \in {"h264_videotoolbox", "h264_nvenc"} ->
           CodecReference(23, Rat(45, 1000))
      [] OTHER -> CodecReference(23, DEFAULT_H264_BITS_PER_PIXEL)

reference_bitrate_from_quality(codec, crf, rate) ==
    LET reference == codec_reference(codec)
        quality_factor == Powf2Sixths(RatSub(reference.reference_crf, crf))
    IN RatDiv(RatMul(RatMul(reference.reference_bits_per_pixel,
                            quality_factor), rate),
              Rat(1000, 1))

\* str::contains("videotoolbox") or str::contains("nvenc") on the codec
\* names the model submits.
IsHardwareCodec(codec) ==
    codec \in {"h264_videotoolbox", "hevc_videotoolbox", "h264_nvenc",
               "hevc_nvenc"}

\* estimate_quality_video_bitrate with the software encoders read like the
\* hardware ones, by config.quality instead of config.crf.
estimate_quality_video_bitrate_by_quality(config, metadata, target_dimensions, target_fps) ==
    LET effective_crf ==
          RatDiv(Rat(100 - config.quality, 1), Rat(196, 100))
    IN reference_bitrate_from_quality(
         config.video_codec, effective_crf,
         pixel_rate(target_dimensions, target_fps))

\* The quality factor 2^((source_crf - effective_crf) / 6) with source_crf =
\* reference_crf - 6 * log2(quality_ratio) is 2^((reference_crf -
\* effective_crf) / 6) / quality_ratio, which is how it is computed here.
estimate_quality_video_bitrate(config, metadata, target_dimensions, target_fps) ==
    LET source_dimensions ==
          UnwrapOr(metadata_dimensions(metadata), target_dimensions)
        rate == IF metadata = None THEN None ELSE metadata[1].frame_rate
        source_fps ==
          IF rate # None /\ RatLess(Rat(0, 1), rate[1]) THEN rate[1]
          ELSE target_fps
        target_pixel_rate == pixel_rate(target_dimensions, target_fps)
        source_pixel_rate ==
          RatMax(pixel_rate(source_dimensions, source_fps), Rat(1, 1))
        pixel_ratio == RatDiv(target_pixel_rate, source_pixel_rate)
        is_hardware == IsHardwareCodec(config.video_codec)
        effective_crf ==
          IF is_hardware
          THEN RatDiv(Rat(100 - config.quality, 1), Rat(196, 100))
          ELSE Rat(config.crf, 1)
        source == source_video_bitrate_kbps(metadata)
        source_bitrate == source[1]
        reference == codec_reference(config.video_codec)
        source_bits_per_pixel ==
          RatDiv(RatMul(source_bitrate, Rat(1000, 1)), source_pixel_rate)
        quality_ratio ==
          RatDiv(source_bits_per_pixel, reference.reference_bits_per_pixel)
        quality_factor ==
          RatDiv(Powf2Sixths(RatSub(reference.reference_crf, effective_crf)),
                 quality_ratio)
    IN IF source # None
       THEN IF RatLess(Rat(0, 1), source_bits_per_pixel)
               /\ RatLess(Rat(0, 1), reference.reference_bits_per_pixel)
            THEN RatMax(RatMul(RatMul(source_bitrate, pixel_ratio),
                               quality_factor), Rat(0, 1))
            ELSE RatMax(RatMul(source_bitrate, pixel_ratio), Rat(0, 1))
       ELSE reference_bitrate_from_quality(config.video_codec, effective_crf,
                                           target_pixel_rate)

OutputEstimate(video, audio, total, size) ==
    [video_kbps |-> video, audio_kbps |-> audio, total_kbps |-> total,
     size_mb |-> size]

\* estimate_output: Ok(OutputEstimate) as [ok |-> ...], or the error.
estimate_output(config, metadata) ==
    LET audio_only == is_audio_only_container(config.container)
        target_dimensions == determine_target_dimensions(config, metadata)
        target_fps == determine_target_fps(config, metadata)
        video_kbps ==
          IF audio_only THEN [ok |-> Rat(0, 1)]
          ELSE IF config.video_bitrate_mode = "bitrate"
          THEN parse_config_bitrate(config.video_bitrate)
          ELSE [ok |-> estimate_quality_video_bitrate(
                         config, metadata, target_dimensions.ok,
                         target_fps.ok)]
        audio_kbps == estimate_audio_bitrate_kbps(config, metadata, audio_only)
        total_payload_kbps == RatAdd(video_kbps.ok, audio_kbps.ok)
        total_kbps_with_overhead ==
          RatMul(total_payload_kbps,
                 container_overhead_factor(config.container))
        seconds ==
          parse_duration_to_seconds(IF metadata = None THEN None
                                    ELSE metadata[1].duration)
        size_mb ==
          IF seconds = None THEN None
          ELSE Some(RatDiv(RatDiv(RatMul(total_kbps_with_overhead,
                                         seconds[1]),
                                  Rat(8, 1)), Rat(1000, 1)))
    IN IF IsErr(target_dimensions) THEN target_dimensions
       ELSE IF IsErr(target_fps) THEN target_fps
       ELSE IF IsErr(video_kbps) THEN video_kbps
       ELSE IF IsErr(audio_kbps) THEN audio_kbps
       ELSE [ok |-> OutputEstimate(RoundU32(video_kbps.ok),
                                   RoundU32(audio_kbps.ok),
                                   RoundU32(total_kbps_with_overhead),
                                   size_mb)]

EstimateConfig(container, video_codec, mode, video_bitrate, audio_codec, audio_bitrate, selected, resolution, width, fps) ==
    [container |-> container, video_codec |-> video_codec,
     video_bitrate_mode |-> mode, video_bitrate |-> video_bitrate,
     audio_codec |-> audio_codec, audio_bitrate |-> audio_bitrate,
     selected_audio_tracks |-> selected, resolution |-> resolution,
     custom_width |-> width, custom_height |-> None, fps |-> fps,
     crf |-> 23, quality |-> 50]

AudioTrack(index, bitrate_kbps) ==
    [index |-> index, bitrate_kbps |-> bitrate_kbps]

ProbeMetadata(bitrate, width, height, frame_rate, video_bitrate_kbps, tracks) ==
    [duration |-> Some("60"), bitrate |-> bitrate,
     resolution |-> Some("1920x1080"), frame_rate |-> frame_rate,
     width |-> width, height |-> height,
     video_bitrate_kbps |-> video_bitrate_kbps, audio_tracks |-> tracks]

\* A probed 1080p source at 30 frames a second whose video bitrate is known.
SampleMetadata(tracks) ==
    ProbeMetadata(Some("4128000"), Some(1920), Some(1080), Some(Rat(30, 1)),
                  Some(Rat(4000, 1)), tracks)

\* The audio tracks of the probed sources: none; one of known bitrate; one
\* known and one unknown; two unknown; two known.
TrackLists ==
    { <<>>,
      <<AudioTrack(0, Some(Rat(128, 1)))>>,
      <<AudioTrack(0, Some(Rat(128, 1))), AudioTrack(1, None)>>,
      <<AudioTrack(0, None), AudioTrack(1, None)>>,
      <<AudioTrack(0, Some(Rat(128, 1))), AudioTrack(1, Some(Rat(192, 1)))>> }

\* The metadata the video estimates are given: none; the sample; one with
\* the container bitrate only; one with no bitrate; one without width and
\* height; a 64x64 source at five frames a second.
VideoMetadata ==
    { None,
      Some(SampleMetadata(<<AudioTrack(0, Some(Rat(128, 1)))>>)),
      Some(ProbeMetadata(Some("4128000"), Some(1920), Some(1080),
                         Some(Rat(30, 1)), None,
                         <<AudioTrack(0, Some(Rat(128, 1)))>>)),
      Some(ProbeMetadata(None, Some(1920), Some(1080), Some(Rat(30, 1)),
                         None, <<>>)),
      Some(ProbeMetadata(Some("n/a"), None, None, None, None, <<>>)),
      Some(ProbeMetadata(None, Some(64), Some(64), Some(Rat(5, 1)), None,
                         <<>>)) }

AudioMetadata == {None} \cup {Some(SampleMetadata(t)) : t \in TrackLists}

\* The CRF values the estimates are asked for.
CrfValues == {18, 23, 24, 30}

\* The (config, metadata) pairs estimate_output is called with: the sample
\* configuration varied in what decides the video bitrate, and varied in
\* what decides the audio bitrate.
EstimateInputs ==
    {[config |-> EstimateConfig(container, codec, mode, rate, "aac", "128",
                                <<>>, res, width, fps),
      metadata |-> meta] :
       container \in {"mp4", "mp3", "MP3"},
       codec \in {"libx264", "libx265", "h264_nvenc"},
       mode \in {"crf", "bitrate"}, rate \in {"5000", "abc"},
       res \in {"original", "720p", "custom"},
       width \in {Some("1280"), Some("0")}, fps \in {"original", "30"},
       meta \in VideoMetadata}
    \cup
    {[config |-> EstimateConfig(container, "libx264", "crf", "5000", codec,
                                rate, selected, "original", None, "original"),
      metadata |-> meta] :
       container \in {"mp4", "mp3", "mkv"},
       codec \in {"copy", "COPY", "aac", "pcm_s16le"},
       rate \in {"128", "192", "abc"},
       selected \in {<<>>, <<0>>, <<0, 1>>, <<1, 1, 0>>, <<2>>},
       meta \in AudioMetadata}

InitEstimate ==
    /\ InitPure
    /\ \E inp \in EstimateInputs :
         eval = [fn |-> "estimate_output", arg |-> inp, out |-> <<>>]

\* What the manager holds while a call is made: the concurrency limit, the
\* messages in the channel, the queued and the running tasks.
ManagerLoad ==
    [max_concurrency |-> max_concurrency, chan |-> Len(chan),
     queue |-> Len(queue), running_tasks |-> Cardinality(running_tasks)]

\* A call of estimate_output on the config of eval.arg with its CRF set to
\* crf, and on the metadata of eval.arg.
call_estimate_output(crf) ==
    /\ eval.fn = "estimate_output"
    /\ Len(eval.out) < MaxEstimateCalls
    /\ eval' = [eval EXCEPT
                  !.out = Append(@, [crf |-> crf,
                                     during |-> ManagerLoad,
                                     result |-> estimate_output(
                                       [eval.arg.config EXCEPT !.crf = crf],
                                       eval.arg.metadata)])]
    /\ UNCHANGED managerVars

NextEstimate == \E crf \in CrfValues : call_estimate_output(crf)

SpecEstimate == InitEstimate /\ [][NextEstimate]_vars

\* The estimates asked for while the manager is at work: the sample
\* configuration for a video and for an audio-only container, with a
\* configured bitrate that parses and one that does not, with and without
\* metadata.
SharedEstimateInputs ==
    {[config |-> EstimateConfig(container, "libx264", "crf", "5000", "aac",
                                rate, <<>>, "original", None, "original"),
      metadata |-> meta] :
       container \in {"mp4", "mp3"}, rate \in {"128", "abc"},
       meta \in {None, Some(SampleMetadata(
                              <<AudioTrack(0, Some(Rat(128, 1)))>>))}}

InitShared ==
    /\ InitManager
    /\ budget = [jobs |-> MaxCallJobs, watch |-> FALSE, platform |-> "unix",
                 capacity |-> CHANNEL_CAPACITY, lines |-> 0]
    /\ \E inp \in SharedEstimateInputs :
         eval = [fn |-> "estimate_output", arg |-> inp, out |-> <<>>]

\* estimate_output called by the front end between its other calls, the
\* coordinator running.
NextShared ==
    \/ call_estimate_output(eval.arg.config.crf)
    \/ \E id \in JobIds : \E inp \in SubmittedInputs(id) :
         queue_conversion(id, inp)
    \/ \E v \in 0..MaxLimit : update_max_concurrency(v)
    \/ coordinator_enqueue

SpecShared == InitShared /\ [][NextShared]_vars

(* ------------------------------- claims -------------------------------- *)

\* A worker that has been launched and has not yet sent its result.
Live(j) == wpc[j] \notin {"idle", "done"}

LiveCount == Cardinality({j \in Jobs : Live(j)})

TerminalEvents(j) ==
    Cardinality({i \in 1..Len(events[j]) :
                   events[j][i].kind \in {"completed", "error"}})

\* C1, as stated: in every reachable state the number of jobs whose worker
\* has been launched and has not yet terminated is at most the current value
\* of the concurrency limit (checked for unique job ids).
C1_RunningAtMostCurrentLimit == ~idReused => LiveCount <= max_concurrency

\* C1, amended: while job ids are unique among non-terminal jobs, a step that
\* raises the number of launched and unterminated jobs leaves it at most the
\* limit in force at that scheduling pass; the number exceeds the current
\* limit only after the limit was lowered, which stops no job.
C1_LaunchWithinLimit ==
    [][(~idReused' /\ LiveCount' > LiveCount) => LiveCount' <= max_concurrency]_vars

\* C1 witness: a job runs at limit 1 while another one is held in the queue.
C1_Witness ==
    /\ ~idReused
    /\ max_concurrency = 1
    /\ LiveCount = 1
    /\ queue # <<>>

\* C2, as stated: each admitted job produces exactly one terminal event
\* ('completed' or 'error') over its lifetime, also when its worker fails
\* before or while spawning the encoder; checked when its worker is done
\* (for unique job ids).
C2_ExactlyOneTerminalEvent ==
    ~idReused => \A j \in Jobs : wpc[j] = "done" => TerminalEvents(j) = 1

\* C3: a setMaxConcurrency call changes only the limit: the channel, the
\* pending queue, the running set, the active-job table, the workers and
\* the processes are as before, whether the limit goes up or down.
C3_SetLimitChangesOnlyLimit ==
    [][(max_concurrency' # max_concurrency
        \/ \E v \in 0..MaxLimit : update_max_concurrency(v))
       => UNCHANGED <<chan, queue, running_tasks, active_tasks, wpc, proc,
                      launchOrder>>]_vars

\* C3 witness: the limit was lowered to 1 and raised again above the number
\* of running jobs while a job waits in the queue, and no job was started.
C3_Witness ==
    /\ max_concurrency = DEFAULT_MAX_CONCURRENCY
    /\ queue # <<>>
    /\ Cardinality(running_tasks) < max_concurrency
    /\ LiveCount = 1

\* The step is the coordinator receiving the message at the head of chan.
Received == chan # <<>> /\ chan' = Tail(chan)

NoRecord(id) == id \notin DOMAIN active_tasks

\* C4: pause(id) and resume(id) return not-found whenever the active-job
\* table has no record for id; then no OS signal is delivered and the table,
\* the queue, the running set, the channel and the processes are unchanged.
C4_PauseResumeNotFound ==
    [][\A id \in JobIds :
         ((pause_task(id) \/ resume_task(id)) /\ NoRecord(id))
         => /\ lastCall'.op \in {"pause", "resume"}
            /\ lastCall'.id = id
            /\ lastCall'.result = "TaskNotFound"
            /\ lastCall'.sigs = <<>>
            /\ UNCHANGED <<active_tasks, queue, running_tasks, chan, proc, ctl>>]_vars

\* C4 witness: pause returned not-found for the id of a job whose worker is
\* launched and whose process runs, JobStarted not yet applied.
C4_Witness ==
    /\ lastCall.op = "pause"
    /\ lastCall.result = "TaskNotFound"
    /\ NoRecord(lastCall.id)
    /\ \E j \in Jobs : /\ jobId[j] = lastCall.id
                       /\ wpc[j] = "stream"
                       /\ proc[j] = "running"

\* C5: cancel(id) on an id with no record in the active-job table returns
\* success, delivers no OS signal and changes no state.
C5_CancelMissingIsNoOp ==
    [][\A id \in JobIds :
         (cancel_task(id) /\ NoRecord(id))
         => /\ lastCall'.op = "cancel"
            /\ lastCall'.id = id
            /\ lastCall'.result = "Ok"
            /\ lastCall'.sigs = <<>>
            /\ UNCHANGED <<active_tasks, queue, running_tasks, chan, proc, ctl,
                           wpc, max_concurrency>>]_vars

\* C5 witness: cancel returned success without a signal for the id of a
\* job that is launched and not yet recorded, or that has already finished.
C5_Witness ==
    /\ lastCall.op = "cancel"
    /\ lastCall.result = "Ok"
    /\ lastCall.sigs = <<>>
    /\ NoRecord(lastCall.id)
    /\ \E j \in Jobs : /\ jobId[j] = lastCall.id
                       /\ wpc[j] \in {"stream", "done"}

\* C6: setMaxConcurrency(0) is rejected with invalid-input and leaves the
\* stored limit unchanged; setMaxConcurrency(v), v >= 1, succeeds and stores
\* v; getMaxConcurrency returns the value of the last successful set (the
\* default if none); the stored limit is never 0.
C6_LimitAtLeastOne ==
    /\ [](/\ max_concurrency >= 1
          /\ max_concurrency = lastGoodSet
          /\ (lastCall.op = "set_max_concurrency"
              => IF lastCall.arg = 0
                 THEN lastCall.result = "InvalidInput"
                 ELSE lastCall.result = "Ok" /\ lastGoodSet = lastCall.arg)
          /\ (lastCall.op = "get_max_concurrency"
              => lastCall.result = "Ok" /\ lastCall.value = lastGoodSet))
    /\ [][update_max_concurrency(0) => UNCHANGED max_concurrency]_vars

\* C6 witness: a set to a value other than the default succeeded and a later
\* set to 0 was rejected.
C6_Witness ==
    /\ lastCall.op = "set_max_concurrency"
    /\ lastCall.arg = 0
    /\ lastCall.result = "InvalidInput"
    /\ max_concurrency # DEFAULT_MAX_CONCURRENCY

\* C7: a queueConversion that fails input validation returns the error,
\* sends no Enqueue message and leaves the channel, the queue, the running
\* set, the active-job table, the workers and the limit as they were.
\* (A rejected call that leaves lastCall as it was changes no variable, so
\* only the steps that change lastCall to a call of it are looked at.)
C7_RejectedJobNotAdmitted ==
    [][(lastCall' # lastCall /\ lastCall'.op = "queue_conversion")
       => \A id \in JobIds, inp \in RejectedInputs :
            queue_conversion(id, inp)
            => /\ lastCall'.op = "queue_conversion"
               /\ lastCall'.result = "InvalidInput"
               /\ UNCHANGED <<chan, queue, running_tasks, active_tasks, wpc,
                              nextJob, jobId, max_concurrency>>]_vars

\* C7 witness: a submission was rejected while another job was running.
C7_Witness ==
    /\ lastCall.op = "queue_conversion"
    /\ lastCall.result = "InvalidInput"
    /\ \E j \in Jobs : wpc[j] = "stream"

\* C8: workers are launched in the order in which the coordinator received
\* the Enqueue messages: the launch order is a prefix of the receive order.
C8_LaunchOrderIsFifo ==
    /\ Len(launchOrder) <= Len(enqOrder)
    /\ \A i \in 1..Len(launchOrder) : launchOrder[i] = enqOrder[i]

\* C8 witness: three jobs were launched, under a changed limit, the first
\* one having finished before the last one was launched.
C8_Witness ==
    /\ Len(launchOrder) = 3
    /\ max_concurrency # DEFAULT_MAX_CONCURRENCY
    /\ Handled(launchOrder[1])
    /\ wpc[launchOrder[3]] = "spawn"

\* C9, as stated: immediately after the handling of every message (Enqueue,
\* JobStarted, JobCompleted, JobFailed) the pending queue is empty or the
\* number of active jobs is at least the limit (checked for unique job ids).
C9_PassAfterEveryMessage ==
    [][(Received /\ ~idReused)
       => (queue' = <<>> \/ Cardinality(running_tasks') >= max_concurrency)]_vars

\* C9, amended: immediately after the handling of an Enqueue, JobCompleted
\* or JobFailed message the pending queue is empty or the number of active
\* jobs is at least the limit read by that pass; the handling of a
\* JobStarted message only records the process id and runs no pass.
C9_PassAfterQueueAndTerminalMessages ==
    [][Received
       => IF Head(chan).type = "TaskStarted"
          THEN UNCHANGED <<queue, running_tasks, wpc, launchOrder>>
          ELSE queue' = <<>> \/ Cardinality(running_tasks') >= max_concurrency]_vars

\* C9 witness: at limit 1 the Enqueue of a second job and the JobStarted of
\* the first one were handled: the pass left the second job in the queue and
\* the first job has its record.
C9_Witness ==
    /\ max_concurrency = 1
    /\ Len(enqOrder) = 2
    /\ Len(launchOrder) = 1
    /\ queue # <<>>
    /\ running_tasks = {jobId[launchOrder[1]]}
    /\ jobId[launchOrder[1]] \in DOMAIN active_tasks

\* C10: the handling of JobCompleted(id) or JobFailed(id) removes id from the
\* running set and from the active-job table and, in the same step, launches
\* queued jobs from the front of the queue until the running count reaches
\* the limit or the queue is empty.
C10_TerminalMessageFreesAndBackfills ==
    [][(Received /\ Head(chan).type \in {"TaskCompleted", "TaskError"})
       => LET id == Head(chan).id
              n == Len(queue) - Len(queue')
              started == {queue[i].job : i \in 1..n}
          IN /\ id \notin DOMAIN active_tasks'
             /\ n >= 0
             /\ queue' = SubSeq(queue, n + 1, Len(queue))
             /\ launchOrder' = launchOrder \o [i \in 1..n |-> queue[i].job]
             /\ running_tasks' = (running_tasks \ {id})
                                   \cup {queue[i].id : i \in 1..n}
             /\ \A j \in started : wpc[j] = "idle" /\ wpc'[j] = "spawn"
             /\ queue' = <<>> \/ Cardinality(running_tasks') >= max_concurrency
             /\ n > 0 => Cardinality(running_tasks') <= max_concurrency]_vars

\* C10 witness: a job's terminal message was handled, its record is gone and
\* the job behind it in the queue was launched in its place.
C10_Witness ==
    /\ max_concurrency = 1
    /\ Len(launchOrder) = 2
    /\ Handled(launchOrder[1])
    /\ NoRecord(jobId[launchOrder[1]])
    /\ wpc[launchOrder[2]] = "spawn"
    /\ running_tasks = {jobId[launchOrder[2]]}

\* The active-job table has a record for job j: its id with its process id.
HasRecord(j) ==
    /\ jobId[j] \in DOMAIN active_tasks
    /\ active_tasks[jobId[j]] = j

InQueue(j) == \E i \in 1..Len(queue) : queue[i].job = j

\* The TaskStarted message of job j is sent and not yet received.
StartedPending(j) ==
    \E i \in 1..Len(chan) : chan[i].type = "TaskStarted" /\ chan[i].job = j

\* C11, as stated: a record exists for a job if and only if the job is
\* Running or Paused, that is, its external process lives; no record exists
\* for a job whose process has exited or that is only queued (checked for
\* unique job ids).
C11_RecordIffRunningOrPaused ==
    ~idReused
    => \A j \in Jobs : HasRecord(j) <=> proc[j] \in {"running", "stopped"}

\* C11, amended: for unique job ids, a record exists for a job exactly from
\* the handling of its JobStarted message to the handling of its JobCompleted
\* or JobFailed message: never for a queued job or one whose spawn failed,
\* not yet for a running job whose JobStarted is in the channel, and still
\* for a job whose process has exited until its terminal message is handled;
\* every record is the record of such a job.
C11_RecordFromStartedToTerminalMessage ==
    ~idReused
    => /\ \A j \in Jobs :
            HasRecord(j) <=> /\ wpc[j] \in {"stream", "report_ok",
                                            "report_err", "done"}
                             /\ proc[j] # "none"
                             /\ ~StartedPending(j)
                             /\ ~Handled(j)
       /\ \A j \in Jobs : HasRecord(j) => ~InQueue(j)
       /\ \A id \in DOMAIN active_tasks :
            \E j \in Jobs : jobId[j] = id /\ HasRecord(j)

\* C11 witness: a job whose process has exited still has its record, while
\* another job waits in the queue without one.
C11_Witness ==
    /\ ~idReused
    /\ \E j, k \in Jobs : /\ HasRecord(j)
                          /\ proc[j] = "exited"
                          /\ InQueue(k)
                          /\ ~HasRecord(k)

\* C12, as stated: in every reachable state no two non-terminal jobs
\* (queued, running or paused) have the same job id.
C12_UniqueNonTerminalIds ==
    \A j, k \in Jobs :
      (j # k /\ NonTerminal(j) /\ NonTerminal(k)) => jobId[j] # jobId[k]

IsTerminalEvent(e) == e.kind \in {"completed", "error"}

\* C13: within a job, every log event and every progress event is emitted
\* before the job's terminal event: no event of the job follows a completed
\* or error event, and events once emitted stay in their order.
C13_LogAndProgressBeforeTerminal ==
    /\ [](\A j \in Jobs : \A i \in 1..Len(events[j]) :
            IsTerminalEvent(events[j][i]) => i = Len(events[j]))
    /\ [][\A j \in Jobs :
            /\ Len(events'[j]) >= Len(events[j])
            /\ SubSeq(events'[j], 1, Len(events[j])) = events[j]]_vars

\* C13 witness: a job emitted a log event, a progress event and then its
\* terminal event.
C13_Witness ==
    \E j \in Jobs :
      /\ Len(events[j]) = 3
      /\ events[j][1].kind = "log"
      /\ events[j][2].kind = "progress"
      /\ IsTerminalEvent(events[j][3])

LastEvent(j) == events[j][Len(events[j])]

\* The terminal message of job j is sent and not yet received.
ResultPending(j) ==
    \E i \in 1..Len(chan) :
      chan[i].type \in {"TaskCompleted", "TaskError"} /\ chan[i].job = j

\* C14: when the event stream of a job's process ends, the worker emits
\* 'completed' and then reports JobCompleted if the recorded exit code is 0,
\* and emits 'error' and then reports JobFailed for any other exit code and
\* for none; it emits nothing else and reports under the job's id.
C14_CompletedIffExitCodeZero ==
    /\ [][\A j \in Jobs :
            worker_terminated(j)
            => /\ Len(events'[j]) = Len(events[j]) + 1
               /\ IF exit_code[j] = Some(0)
                  THEN /\ events'[j][Len(events'[j])].kind = "completed"
                       /\ wpc'[j] = "report_ok"
                  ELSE /\ events'[j][Len(events'[j])] = Event("error", exit_code[j])
                       /\ wpc'[j] = "report_err"]_vars
    /\ [][\A j \in Jobs :
            worker_report(j)
            => /\ Len(chan') = Len(chan) + 1
               /\ chan'[Len(chan')].id = jobId[j]
               /\ chan'[Len(chan')].type =
                    IF wpc[j] = "report_ok" THEN "TaskCompleted"
                    ELSE "TaskError"]_vars
    /\ [](\A j \in Jobs :
            (ResultPending(j) /\ events[j] # <<>>)
            => \A i \in 1..Len(chan) :
                 chan[i].job = j
                 => /\ chan[i].type = "TaskCompleted"
                       => LastEvent(j).kind = "completed"
                    /\ chan[i].type = "TaskError"
                       => /\ LastEvent(j).kind = "error"
                          /\ LastEvent(j).val # Some(0))

\* C14 witness: a job whose process was ended without an exit code emitted
\* 'error' and its JobFailed message is in the channel.
C14_Witness ==
    \E j \in Jobs :
      /\ wpc[j] = "done"
      /\ events[j] # <<>>
      /\ LastEvent(j) = Event("error", None)
      /\ \E i \in 1..Len(chan) :
           chan[i].type = "TaskError" /\ chan[i].job = j

\* C15, as stated: every worker failure is reported two ways, by a JobFailed
\* message to the Coordinator and by an 'error' event to the subscribers:
\* the job of every JobFailed message has emitted an 'error' event, also
\* when the failure is a failure to spawn.
C15_FailureReportedTwoWays ==
    \A i \in 1..Len(chan) :
      chan[i].type = "TaskError"
      => /\ events[chan[i].job] # <<>>
         /\ LastEvent(chan[i].job).kind = "error"

\* The guard of the active-job table taken by pause_task, resume_task or
\* cancel_task is alive.
TableLocked == ctl.pc # "idle"

\* A caller is at the OS calls of pause_task, resume_task or cancel_task.
InSignalCall == ctl.pc = "signal"

\* The Coordinator has received a message whose arm locks the table.
CoordinatorNeedsTable ==
    chan # <<>> /\ Head(chan).type \in {"TaskStarted", "TaskCompleted",
                                         "TaskError"}

\* C16, as stated: pause, resume and cancel release the lock on the
\* active-job table before they make the OS signal call: in no reachable
\* state is a caller at the OS call with the table still locked, so the
\* Coordinator never waits for the lock during an OS call.
C16_SignalCallOutsideLock ==
    /\ ~(InSignalCall /\ TableLocked)
    /\ ~(InSignalCall /\ CoordinatorNeedsTable
          /\ ~ENABLED (coordinator_task_started \/ coordinator_task_completed
                        \/ coordinator_task_error))

\* The OS calls of the last API call that failed.
FailedCalls(call) ==
    {call.sigs[i].sig : i \in {k \in 1..Len(call.sigs) : ~call.sigs[k].ok}}

\* C17, as stated: for pause, resume and cancel on an id with a record,
\* every failing OS call other than the continue primitive of cancel makes
\* the operation return an operational error; no such failure yields Ok.
C17_OsFailureIsError ==
    /\ lastCall.op \in {"pause", "resume"}
       => (FailedCalls(lastCall) # {} => lastCall.result = "Shell")
    /\ lastCall.op = "cancel"
       => (FailedCalls(lastCall) \ {ContPrimitive} # {}
             => lastCall.result = "Shell")

\* C18: cancel on an id with a record first makes the continue call on the
\* recorded process and then the terminate step (SIGKILL; OpenProcess and,
\* once the process is opened, TerminateProcess), in that order and whatever
\* the outcome of the continue call, which does not decide the result.
C18_CancelResumesThenTerminates ==
    /\ [][cancel_signal
           => /\ lastCall'.op = "cancel"
              /\ lastCall'.id = ctl.id
              /\ Len(lastCall'.sigs) >= 2]_vars
    /\ [](lastCall.op = "cancel" /\ lastCall.sigs # <<>>
           => LET sigs == lastCall.sigs IN
              /\ Len(sigs) >= 2
              /\ sigs[1].sig = ContPrimitive
              /\ IF budget.platform = "unix"
                 THEN /\ Len(sigs) = 2
                      /\ sigs[2].sig = "SIGKILL"
                      /\ lastCall.result = IF sigs[2].ok THEN "Ok" ELSE "Shell"
                 ELSE /\ sigs[2].sig = "OpenProcess"
                      /\ IF sigs[2].ok
                         THEN /\ Len(sigs) = 3
                              /\ sigs[3].sig = "TerminateProcess"
                         ELSE Len(sigs) = 2 /\ lastCall.result = "Shell")

\* C18 witness: a cancel whose continue call failed went on to the
\* terminate call.
C18_Witness ==
    /\ lastCall.op = "cancel"
    /\ lastCall.sigs # <<>>
    /\ ~lastCall.sigs[1].ok
    /\ lastCall.sigs[Len(lastCall.sigs)].sig \in {"SIGKILL", "TerminateProcess"}

\* C19: cancel returns after its OS calls without waiting for the process to
\* end and removes neither the record nor the entry in the running set; for
\* unique job ids these are released only by the Coordinator's handling of
\* the job's terminal message; a process that was running or paused when
\* the terminate call reached it stays ended with a non-zero or no exit code
\* until its worker reads the end of the stream, emits 'error' and turns to
\* reporting JobFailed.
C19_CancelIsAsynchronous ==
    /\ [][cancel_signal
           => /\ ctl' = IdleCtl
              /\ UNCHANGED <<active_tasks, running_tasks, queue, chan, wpc,
                             events>>]_vars
    /\ [][\A j \in Jobs :
            (/\ ~idReused
             /\ NonTerminal(j)
             /\ \/ HasRecord(j) /\ ~HasRecord(j)'
                \/ jobId[j] \in running_tasks /\ jobId[j] \notin running_tasks')
            => /\ Received
               /\ Head(chan).type \in {"TaskCompleted", "TaskError"}
               /\ Head(chan).job = j]_vars
    /\ [](\A j \in Jobs :
            proc[j] = "killed"
            => wpc[j] = "stream" /\ exit_code[j] = KilledCode
                                 /\ exit_code[j] # Some(0))
    /\ [][\A j \in Jobs :
            (proc[j] = "killed" /\ proc'[j] # "killed")
            => /\ worker_terminated(j)
               /\ events'[j][Len(events'[j])].kind = "error"
               /\ wpc'[j] = "report_err"]_vars

\* C19 witness: cancel has returned, the process is ended, and the job still
\* has its record and its entry in the running set, its worker not having
\* read the end of the stream yet.
C19_Witness ==
    \E j \in Jobs :
      /\ proc[j] = "killed"
      /\ ctl = IdleCtl
      /\ HasRecord(j)
      /\ jobId[j] \in running_tasks
      /\ wpc[j] = "stream"

\* The jobs of a sequence of job numbers.
Range(seq) == {seq[i] : i \in 1..Len(seq)}

\* C20: no job is retried: every received Enqueue is either still in the
\* queue or was launched once; a job enters the queue only when its Enqueue
\* is received, and a worker is launched only for a job taken from the
\* queue that was never launched before, so a job that has failed or
\* completed is never queued or launched again.
C20_NoAutomaticRetry ==
    /\ [](/\ Len(enqOrder) = Len(queue) + Len(launchOrder)
           /\ Cardinality(Range(launchOrder)) = Len(launchOrder)
           /\ \A j \in Jobs : InQueue(j) => wpc[j] = "idle"
                                           /\ j \notin Range(launchOrder))
    /\ [][\A j \in Jobs :
            (InQueue(j)' /\ ~InQueue(j))
            => /\ Received
               /\ Head(chan).type = "Enqueue"
               /\ Head(chan).job = j]_vars
    /\ [][\A j \in Jobs :
            (wpc'[j] = "spawn" /\ wpc[j] # "spawn")
            => /\ wpc[j] = "idle"
               /\ j \notin Range(launchOrder)
               /\ Received
               /\ InQueue(j) \/ Head(chan).job = j]_vars

\* C20 witness: a job has failed with an 'error' event, its JobFailed message
\* is handled, and it is neither queued nor running again.
C20_Witness ==
    \E j \in Jobs :
      /\ Handled(j)
      /\ events[j] # <<>>
      /\ LastEvent(j).kind = "error"
      /\ launchOrder = <<j>>
      /\ queue = <<>>
      /\ running_tasks = {}
      /\ chan = <<>>

ChannelFull == Len(chan) >= budget.capacity

\* C21: getMaxConcurrency and setMaxConcurrency are enabled in every
\* reachable state, whatever the Coordinator, the channel and the lock of the
\* active-job table are at, and each completes in the one step.
C21_LimitCallsNeverBlock ==
    /\ [](/\ ENABLED current_max_concurrency
           /\ \A v \in 0..MaxLimit : ENABLED update_max_concurrency(v))
    /\ [][(current_max_concurrency
            \/ \E v \in 0..MaxLimit : update_max_concurrency(v))
           => /\ lastCall'.op \in {"get_max_concurrency", "set_max_concurrency"}
              /\ lastCall'.result \in {"Ok", "InvalidInput"}
              /\ UNCHANGED <<chan, ctl>>]_vars

\* C21 witness: a set call has returned while the channel is full, a call
\* holds the lock of the table at its OS call, and the Coordinator's next
\* message needs the table.
C21_Witness ==
    /\ lastCall.op = "set_max_concurrency"
    /\ lastCall.result = "Ok"
    /\ max_concurrency # DEFAULT_MAX_CONCURRENCY
    /\ ChannelFull
    /\ InSignalCall
    /\ CoordinatorNeedsTable

\* One iteration of the Coordinator's loop: the arm of the received message.
coordinator_step ==
    \/ coordinator_enqueue
    \/ coordinator_task_started
    \/ coordinator_task_completed
    \/ coordinator_task_error

\* A worker whose process has been created and has neither exited nor been
\* killed.
ProcessAlive(j) == proc[j] \in {"running", "stopped"}

\* C22: the Coordinator never waits on process I/O. Whatever the workers'
\* processes are at, the message at the head of the channel can be handled
\* (an arm that locks the active-job table waits for that lock only), and
\* handling it, the scheduling pass included, is one step in which no process
\* is created, prints a line or exits.
C22_CoordinatorNeverWaitsOnProcess ==
    /\ [](chan # <<>> /\ (Head(chan).type = "Enqueue" \/ ~TableLocked)
           => ENABLED coordinator_step)
    /\ [][coordinator_step
           => UNCHANGED <<proc, exit_code, total_duration, nlines, events>>]_vars

\* C22 witness: the process of the job launched first is still alive, and
\* the job launched after it has been enqueued, started and completed, all
\* its messages handled.
C22_Witness ==
    /\ launchOrder = <<1, 2>>
    /\ ProcessAlive(1)
    /\ wpc[1] = "stream"
    /\ Handled(2)
    /\ \E i \in 1..Len(events[2]) : events[2][i].kind = "completed"

\* What a line states after the marker: the hundredths of a second of the
\* first timestamp of the exact shape that follows the marker, if any.
Marked(marker, line) ==
    LET n == Len(marker)
        at == {i \in 1..(Len(line) - n - 10) :
                  /\ line[i] = marker[1]
                  /\ SubSeq(line, i, i + n - 1) = marker
                  /\ ExactShape(SubSeq(line, i + n, i + n + 10))}
    IN IF at = {} THEN None
       ELSE LET i == CHOOSE k \in at : \A m \in at : k <= m
            IN Some(StampCentis(SubSeq(line, i + n, i + n + 10)))

DurationMarked(line) ==
    Marked(<<"D", "u", "r", "a", "t", "i", "o", "n", ":", " ">>, line)

TimeMarked(line) == Marked(<<"t", "i", "m", "e", "=">>, line)

\* The first of the stated values vals (None where nothing is stated) among
\* the first n.
FirstStated(vals, n) ==
    LET at == {i \in 1..n : vals[i] # None}
    IN IF at = {} THEN None
       ELSE vals[CHOOSE k \in at : \A m \in at : k <= m]

\* What each line states after the Duration marker and after the time=
\* marker, computed once.
StatedLines ==
    [line \in StreamLines \cup StderrLines |->
       [duration |-> DurationMarked(line), time |-> TimeMarked(line)]]

\* C23: the cached duration is the one of the first Duration line and no
\* later Duration line changes it; a progress event follows the log event of
\* a time= line read while a duration is cached, and only such a line; its
\* value is min(100, position/duration*100), stated without the division: 100
\* when the position is at or past the duration, position*100/duration below
\* that; and no progress event comes before the first Duration line.
C23_DurationCachedOnceProgressFromIt ==
    \A j \in Jobs :
      LET evs == events[j]
          durs == [i \in 1..Len(evs) |->
                     IF evs[i].kind = "log"
                     THEN StatedLines[evs[i].val[1]].duration ELSE None]
          times == [i \in 1..Len(evs) |->
                      IF evs[i].kind = "log"
                      THEN StatedLines[evs[i].val[1]].time ELSE None]
          cached == FirstStated(durs, Len(evs))
      IN /\ total_duration[j] # None
              => /\ cached # None
                 /\ total_duration[j][1] = Rat(cached[1], 100)
         /\ wpc[j] = "stream" /\ cached # None => total_duration[j] # None
         /\ \A i \in 1..Len(evs) :
              /\ evs[i].kind = "progress"
                   => /\ i > 1
                      /\ times[i - 1] # None
                      /\ FirstStated(durs, i - 1) # None
                      /\ LET pos == times[i - 1][1]
                             dur == FirstStated(durs, i - 1)[1]
                             pct == evs[i].val[1]
                         IN IF pos >= dur THEN pct = Rat(100, 1)
                            ELSE pct.n * dur = pos * 100 * pct.d
              /\ times[i] # None /\ FirstStated(durs, i) # None
                   => /\ i < Len(evs)
                      /\ evs[i + 1].kind = "progress"

\* C23 witness: a Duration line of 4 s, then a line with a duration of 2 s
\* and a position of 3 s: the cache still holds 4 s and the progress is 75.
C23_Witness ==
    \E j \in Jobs :
      /\ Len(events[j]) = 3
      /\ DurationMarked(events[j][1].val[1]) = Some(400)
      /\ DurationMarked(events[j][2].val[1]) = Some(200)
      /\ TimeMarked(events[j][2].val[1]) = Some(300)
      /\ events[j][3] = Event("progress", Some(Rat(75, 1)))
      /\ total_duration[j] = Some(Rat(4, 1))

\* The number of log events among evs.
LogCount(evs) == Cardinality({i \in 1..Len(evs) : evs[i].kind = "log"})

\* C24: every stderr line received produces exactly one log event of the job,
\* carrying the raw line, whether the line matches a marker or not, and the
\* log event comes before the progress event of the same line.
C24_OneLogPerLineBeforeProgress ==
    /\ [][\A j \in Jobs :
            nlines' # nlines /\ events'[j] # events[j]
              => \A line \in StreamLines \cup StderrLines :
                   worker_stderr(j, line)
                     => /\ Len(events'[j]) > Len(events[j])
                        /\ SubSeq(events'[j], 1, Len(events[j]) + 1)
                             = Append(events[j], Event("log", Some(line)))
                        /\ LogCount(events'[j]) = LogCount(events[j]) + 1
                        /\ \A i \in (Len(events[j]) + 2)..Len(events'[j]) :
                             events'[j][i].kind = "progress"]_vars
    /\ [][\A j \in Jobs :
            events'[j] # events[j]
              => \/ LogCount(events'[j]) = LogCount(events[j])
                 \/ \E line \in StreamLines \cup StderrLines :
                      worker_stderr(j, line)]_vars
    /\ [][nlines' # nlines => \E j \in Jobs : events'[j] # events[j]]_vars

\* C24 witness: a line without marker and a line with both markers have
\* been received: the log event of each carries the line, and the progress
\* event of the second comes after its log event.
C24_Witness ==
    \E j \in Jobs :
      /\ nlines = 2
      /\ Len(events[j]) = 3
      /\ events[j][1] = Event("log", Some(PlainLine))
      /\ events[j][2].kind = "log"
      /\ DurationMarked(events[j][2].val[1]) = Some(200)
      /\ TimeMarked(events[j][2].val[1]) = Some(300)
      /\ events[j][3] = Event("progress", Some(Rat(100, 1)))

\* A decimal number: an optional sign, then digits with at most one dot among
\* them and at least one digit.
IsDecimal(str) ==
    LET rest == IF str # <<>> /\ str[1] \in {"+", "-"} THEN Tail(str) ELSE str
    IN /\ Cardinality({i \in 1..Len(rest) : rest[i] = "."}) <= 1
       /\ \E i \in 1..Len(rest) : IsAsciiDigit(rest[i])
       /\ \A i \in 1..Len(rest) : rest[i] = "." \/ IsAsciiDigit(rest[i])

\* The colons of str.
Colons(str) == {i \in 1..Len(str) : str[i] = ":"}

\* C26, as stated: parse_time yields a value for the exact shape HH:MM:SS.ff
\* and for no other string, and the value is hours*3600 + minutes*60 +
\* seconds.
C26_OnlyExactShapeParses ==
    eval.fn = "parse_time" /\ eval.out # <<>>
      => /\ eval.out[1] # None <=> ExactShape(eval.arg)
         /\ ExactShape(eval.arg)
              => eval.out[1] = Some(Rat(StampCentis(eval.arg), 100))

\* C26, amended: parse_time yields a value exactly for the strings with two
\* colons whose three pieces are decimal numbers, the exact shape HH:MM:SS.ff
\* among them, for which the value is hours*3600 + minutes*60 + seconds; for
\* every other string it returns no value.
C26_ThreeNumbersParse ==
    eval.fn = "parse_time" /\ eval.out # <<>>
      => /\ eval.out[1] # None
             <=> /\ Cardinality(Colons(eval.arg)) = 2
                 /\ \A i, k \in Colons(eval.arg) \cup {0, Len(eval.arg) + 1} :
                      (i < k /\ \A m \in Colons(eval.arg) : ~(i < m /\ m < k))
                        => IsDecimal(SubSeq(eval.arg, i + 1, k - 1))
         /\ eval.out[1] # None => eval.out[1][1].d > 0
         /\ ExactShape(eval.arg)
              => eval.out[1] = Some(Rat(StampCentis(eval.arg), 100))

\* C26 witness: "5:00:01", which is not of the shape HH:MM:SS.ff, has been
\* parsed to 18001 seconds.
C26_Witness ==
    /\ eval.fn = "parse_time"
    /\ eval.arg = <<"5", ":", "0", "0", ":", "0", "1">>
    /\ eval.out = <<Some(Rat(18001, 1))>>

\* The name has an extension: its part after the last separator has a dot
\* that is not its first character.
NameHasExtension(name) ==
    LET first == LastSeparator(name, Len(name)) + 1
    IN \E i \in (first + 1)..Len(name) : name[i] = "."

\* dir joined with name: name after dir and a separator, the separator left
\* out where dir is empty or ends with one.
Joined(dir, name) ==
    IF dir = <<>> \/ dir[Len(dir)] = "/" THEN dir \o name
    ELSE dir \o <<"/">> \o name

\* C25, as stated: with a name that is not blank, the output path is the
\* parent directory of the source joined with the trimmed name, "." and the
\* container appended only if the name has no extension; with no name or a
\* blank one it is the source path followed by "_converted." and the
\* container.
C25_OutputPathBesideSource ==
    eval.fn = "build_output_path" /\ eval.out # <<>>
      => LET file_path == eval.arg[1]
             container == eval.arg[2]
             name == IF eval.arg[3] = None THEN <<>> ELSE Trim(eval.arg[3][1])
         IN IF name # <<>>
            THEN eval.out[1]
                   = Joined(PathParent(file_path), name)
                     \o (IF NameHasExtension(name) THEN <<>>
                         ELSE <<".">> \o container)
            ELSE eval.out[1]
                   = file_path
                     \o <<"_", "c", "o", "n", "v", "e", "r", "t", "e", "d", ".">>
                     \o container

\* The text of a positive integer.
IsPositiveInteger(text) == text \in {"1280", "+5"}

\* A custom dimension that is a positive integer or the auto sentinel: -1 or
\* absent.
IsDimension(opt) ==
    \/ opt = None
    \/ opt = Some("-1")
    \/ opt # None /\ IsPositiveInteger(opt[1])

\* The text of a number strictly greater than 0.
IsPositiveNumber(text) == text \in {"5000", "2.5"}

\* C27, as stated: a job with resolution "custom" is accepted only if its
\* custom width and its custom height are each a positive integer or the auto
\* sentinel, and a job in explicit-bitrate mode is accepted only if its video
\* bitrate is the text of a number strictly greater than 0.
C27_AcceptedOnlyIfDimensionsAndBitrateValid ==
    eval.fn = "validate_task_input" /\ eval.out = <<"Ok">>
      => /\ eval.arg.config.resolution = "custom"
              => /\ IsDimension(eval.arg.config.custom_width)
                 /\ IsDimension(eval.arg.config.custom_height)
         /\ eval.arg.config.video_bitrate_mode = "bitrate"
              => IsPositiveNumber(eval.arg.config.video_bitrate)


\* The audio tracks an estimate is for, as the configuration and the
\* metadata of eval.arg select them.
SelectedTracks ==
    resolve_audio_track_ids(eval.arg.config, eval.arg.metadata,
                            is_audio_only_container(eval.arg.config.container))

\* The probed bitrate of track id of tracks, None when it or the track is
\* unknown.
ProbedBitrate(tracks, id) ==
    IF \E i \in 1..Len(tracks) : tracks[i].index = id
    THEN tracks[CHOOSE i \in 1..Len(tracks) :
                  /\ tracks[i].index = id
                  /\ \A k \in 1..(i - 1) : tracks[k].index # id].bitrate_kbps
    ELSE None

\* The sum over ids of each track's probed bitrate, a track of unknown
\* bitrate counting for unknown kbps.
RECURSIVE PerTrackSum(_, _, _)
PerTrackSum(ids, tracks, unknown) ==
    IF ids = <<>> THEN Rat(0, 1)
    ELSE RatAdd(UnwrapOr(ProbedBitrate(tracks, Head(ids)), Rat(unknown, 1)),
                PerTrackSum(Tail(ids), tracks, unknown))

ProbedTracks ==
    IF eval.arg.metadata = None THEN <<>>
    ELSE eval.arg.metadata[1].audio_tracks

CopyAudio == LowerName(eval.arg.config.audio_codec) = "copy"

\* C30, as stated: with the audio codec "copy" the estimated audio bitrate
\* is the sum over the selected tracks of each track's probed bitrate, every
\* selected track of unknown bitrate counting for 128 kbps, with or without
\* metadata.
C30_CopyAudioSumsPerTrack ==
    \A i \in 1..Len(eval.out) :
      (eval.fn = "estimate_output" /\ CopyAudio) =>
        \/ IsErr(eval.out[i].result)
        \/ eval.out[i].result.ok.audio_kbps =
             RoundU32(PerTrackSum(SelectedTracks, ProbedTracks,
                                  FALLBACK_AUDIO_BITRATE_KBPS))

\* C30, amended: with the audio codec "copy" and metadata supplied, the
\* estimated audio bitrate is the sum of the known probed bitrates of the
\* selected tracks when that sum is positive, and 128 kbps for every
\* selected track when it is not; with no metadata supplied the estimate is
\* the one of an encoded codec, the configured audio bitrate for every
\* selected track, or an error when that bitrate does not parse.
C30_CopyAudioKnownSumOrFlatFallback ==
    \A i \in 1..Len(eval.out) :
      (eval.fn = "estimate_output" /\ CopyAudio) =>
        LET res == eval.out[i].result
            known == PerTrackSum(SelectedTracks, ProbedTracks, 0)
            configured == ParseNumber(eval.arg.config.audio_bitrate)
        IN IF eval.arg.metadata # None
           THEN /\ ~IsErr(res)
                /\ res.ok.audio_kbps =
                     IF known.n > 0 THEN RoundU32(known)
                     ELSE FALLBACK_AUDIO_BITRATE_KBPS * Len(SelectedTracks)
           ELSE IF SelectedTracks = <<>> THEN res.ok.audio_kbps = 0
           ELSE IF configured = None THEN IsErr(res)
           ELSE res.ok.audio_kbps =
                  RoundU32(configured[1]) * Len(SelectedTracks)

\* An estimate was made with the codec "copy" for two selected tracks, one
\* of known and one of unknown bitrate.
C30_Witness ==
    /\ eval.fn = "estimate_output"
    /\ CopyAudio
    /\ Len(eval.out) > 0
    /\ Len(SelectedTracks) = 2
    /\ \E i, k \in 1..2 :
         /\ ProbedBitrate(ProbedTracks, SelectedTracks[i]) # None
         /\ ProbedBitrate(ProbedTracks, SelectedTracks[k]) = None
    /\ ~IsErr(eval.out[1].result)
    /\ eval.out[1].result.ok.audio_kbps = 128


\* The configured CRF decides the video bitrate of the estimate under
\* evaluation: the container carries video, the bitrate is not given
\* explicitly and the codec is not a hardware one.
CrfApplies ==
    /\ ~is_audio_only_container(eval.arg.config.container)
    /\ eval.arg.config.video_bitrate_mode # "bitrate"
    /\ ~IsHardwareCodec(eval.arg.config.video_codec)

\* The pairs of estimates made on eval.arg, the first with the lower CRF.
CrfPairs ==
    {p \in (1..Len(eval.out)) \X (1..Len(eval.out)) :
       /\ eval.out[p[1]].crf < eval.out[p[2]].crf
       /\ ~IsErr(eval.out[p[1]].result)
       /\ ~IsErr(eval.out[p[2]].result)}

VideoKbps(i) == eval.out[i].result.ok.video_kbps

\* C29, as stated: all other inputs fixed, the estimate with the higher CRF
\* has the strictly lower video bitrate.
C29_HigherCrfStrictlyLowerVideoKbps ==
    eval.fn = "estimate_output" =>
      \A p \in CrfPairs : VideoKbps(p[1]) > VideoKbps(p[2])

\* C29, amended: the estimate with the higher CRF never has the higher
\* video bitrate; it has the strictly lower one when the CRF applies (video
\* container, quality mode, software codec) and the estimates are of 9 kbps
\* or more, below which two of them can round to the same number; and the
\* same one when the CRF does not apply.
C29_HigherCrfNeverHigherVideoKbps ==
    eval.fn = "estimate_output" =>
      \A p \in CrfPairs :
        /\ VideoKbps(p[1]) >= VideoKbps(p[2])
        /\ (CrfApplies /\ VideoKbps(p[2]) >= 9) =>
             VideoKbps(p[1]) > VideoKbps(p[2])
        /\ ~CrfApplies => VideoKbps(p[1]) = VideoKbps(p[2])

\* Two estimates were made where the CRF applies, at CRF 23 and at CRF 24 on
\* a source of known bitrate, and the second is lower and not zero.
C29_Witness ==
    /\ eval.fn = "estimate_output"
    /\ CrfApplies
    /\ source_video_bitrate_kbps(eval.arg.metadata) # None
    /\ Len(eval.out) = 2
    /\ eval.out[1].crf = 23
    /\ eval.out[2].crf = 24
    /\ <<1, 2>> \in CrfPairs
    /\ VideoKbps(1) > VideoKbps(2)
    /\ VideoKbps(2) > 0


AudioOnlyContainer ==
    eval.arg.config.container \in
      {"mp3", "MP3", "wav", "WAV", "flac", "FLAC", "aac", "AAC", "m4a", "M4A"}

\* The audio bitrate of the estimate under evaluation before rounding, for
\* an audio-only container.
AudioOnlyKbps ==
    estimate_audio_bitrate_kbps(eval.arg.config, eval.arg.metadata, TRUE)

\* C31: for an audio-only container, in either case of the letters, every
\* estimate returned has videoKbps = 0 whatever the codec, the bitrate mode,
\* the video bitrate, the CRF and the metadata, and its total is the audio
\* bitrate times the overhead factor of the container, rounded; an error is
\* returned only for dimensions, a frame rate or an audio bitrate that are
\* not valid.
C31_AudioOnlyVideoZeroTotalFromAudio ==
    (eval.fn = "estimate_output" /\ AudioOnlyContainer) =>
      \A i \in 1..Len(eval.out) :
        LET res == eval.out[i].result
        IN IF IsErr(res)
           THEN \/ IsErr(determine_target_dimensions(eval.arg.config,
                                                     eval.arg.metadata))
                \/ IsErr(determine_target_fps(eval.arg.config,
                                              eval.arg.metadata))
                \/ IsErr(AudioOnlyKbps)
           ELSE /\ res.ok.video_kbps = 0
                /\ res.ok.audio_kbps = RoundU32(AudioOnlyKbps.ok)
                /\ res.ok.total_kbps =
                     RoundU32(RatMul(AudioOnlyKbps.ok,
                                     container_overhead_factor(
                                       eval.arg.config.container)))

\* An estimate was returned for the container "MP3" in bitrate mode with a
\* video bitrate that does not parse: no video, 128 kbps of audio, 129 kbps
\* in total.
C31_Witness ==
    /\ eval.fn = "estimate_output"
    /\ eval.arg.config.container = "MP3"
    /\ eval.arg.config.video_bitrate_mode = "bitrate"
    /\ eval.arg.config.video_bitrate = "abc"
    /\ Len(eval.out) > 0
    /\ ~IsErr(eval.out[1].result)
    /\ eval.out[1].result.ok.video_kbps = 0
    /\ eval.out[1].result.ok.audio_kbps = 128
    /\ eval.out[1].result.ok.total_kbps = 129


\* Message i of the channel is a terminal one.
TerminalAt(i) == chan[i].type \in {"TaskCompleted", "TaskError"}

\* C32: for unique job ids, the JobStarted message of a worker is in the
\* channel before its JobCompleted or JobFailed message, and a worker that
\* has yet to send JobStarted has sent no terminal message; so once the
\* coordinator has handled the terminal message of a job, no JobStarted
\* message of the job is left, the table holds no record of the job and none
\* appears later.
C32_StartedHandledBeforeTerminal ==
    /\ [](~idReused =>
            /\ \A i, k \in 1..Len(chan) :
                 (/\ chan[i].job = chan[k].job
                  /\ chan[i].type = "TaskStarted"
                  /\ TerminalAt(k)) => i < k
            /\ \A j \in Jobs :
                 wpc[j] \in {"spawn", "notify"} =>
                   ~ResultPending(j) /\ ~StartedPending(j)
            /\ \A j \in Jobs :
                 Handled(j) => ~HasRecord(j) /\ ~StartedPending(j))
    /\ [][\A j \in Jobs :
            (Handled(j) /\ ~idReused') => (Handled(j) /\ ~HasRecord(j))']_vars

\* C32 witness: the terminal message of a job whose process ran and exited
\* has been handled and its record is gone, while another job has its
\* record.
C32_Witness ==
    /\ ~idReused
    /\ \E j, k \in Jobs :
         /\ Handled(j)
         /\ proc[j] = "gone"
         /\ ~HasRecord(j)
         /\ jobId[j] \notin DOMAIN active_tasks
         /\ HasRecord(k)


\* C33, as stated: whenever pause, resume or cancel has found a record and
\* is at its OS signal call, the process of the recorded pid is alive
\* (running or stopped): no signal goes to the pid of a process that has
\* exited.
C33_SignalOnlyLiveProcess ==
    InSignalCall => proc[ctl.pid] \in {"running", "stopped"}


\* The Enqueue message of job j is sent and not yet received.
EnqueuePending(j) ==
    \E i \in 1..Len(chan) : chan[i].type = "Enqueue" /\ chan[i].job = j

\* Job j is admitted and still pending, or launched with its JobStarted
\* message not yet handled.
PendingOrUnrecorded(j) ==
    /\ j < nextJob
    /\ \/ EnqueuePending(j)
       \/ InQueue(j)
       \/ wpc[j] \in {"spawn", "notify"}
       \/ StartedPending(j)

\* C34: with unique job ids, cancel(id), pause(id) and resume(id) called
\* while job id is pending, or launched and not yet recorded, change nothing:
\* the channel, the queue, the running set, the table, the workers and the
\* processes are as before and no signal call is begun, so the job is
\* launched and run as without the call; cancel returns success, pause and
\* resume return not-found.
C34_ControlOfUnrecordedJobIsNoOp ==
    [][\A id \in JobIds :
         (/\ pause_task(id) \/ resume_task(id) \/ cancel_task(id)
          /\ ~idReused
          /\ \E j \in Jobs : jobId[j] = id /\ PendingOrUnrecorded(j))
         => /\ UNCHANGED <<chan, queue, running_tasks, active_tasks,
                           max_concurrency, ctl, wpc, proc, exit_code,
                           events, launchOrder>>
            /\ lastCall'.id = id
            /\ lastCall'.sigs = <<>>
            /\ lastCall'.result =
                 IF lastCall'.op = "cancel" THEN "Ok" ELSE "TaskNotFound"]_vars

\* C34 witness: the last call was a cancel of a job made while the job was
\* pending or unrecorded (it returned success without a signal and there has
\* been no call since), and the job has since been launched, has run and has
\* completed.
C34_Witness ==
    /\ ~idReused
    /\ lastCall.op = "cancel"
    /\ lastCall.result = "Ok"
    /\ lastCall.sigs = <<>>
    /\ \E j \in Jobs :
         /\ jobId[j] = lastCall.id
         /\ Len(launchOrder) = 2
         /\ launchOrder[2] = j
         /\ wpc[j] = "done"
         /\ events[j] = <<Event("completed", None)>>


\* C37: pause(id) and resume(id), in the lookup and in the signal call, leave
\* the queue, the running set and the table of records as they are and
\* launch no job; with unique job ids a job whose process is stopped is in
\* the running set and has its record, so it counts toward the limit.
C37_PausedJobKeepsItsSlot ==
    /\ [][(\/ \E id \in JobIds : pause_task(id) \/ resume_task(id)
           \/ pause_signal
           \/ resume_signal)
          => UNCHANGED <<queue, running_tasks, active_tasks, launchOrder,
                         wpc, chan>>]_vars
    /\ [](~idReused =>
           \A j \in Jobs :
             proc[j] = "stopped"
               => /\ jobId[j] \in running_tasks
                  /\ HasRecord(j))

\* C37 witness: under a limit of 1 the pause of the running job has returned
\* success, its process is stopped and in the running set, and the other job
\* waits in the queue.
C37_Witness ==
    /\ ~idReused
    /\ max_concurrency = 1
    /\ lastCall.op = "pause"
    /\ lastCall.result = "Ok"
    /\ \E j, k \in Jobs :
         /\ proc[j] = "stopped"
         /\ jobId[j] = lastCall.id
         /\ running_tasks = {jobId[j]}
         /\ InQueue(k)


\* The jobs whose worker was launched and whose terminal message the
\* coordinator has not received.
LaunchedUnhandled ==
    {j \in Jobs : /\ \E i \in 1..Len(launchOrder) : launchOrder[i] = j
                  /\ ~(wpc[j] = "done" /\ ~ResultPending(j))}

QueuedIds == {queue[i].id : i \in 1..Len(queue)}

\* C38: with unique job ids, in every state of the coordinator no id is both
\* in the pending queue and in the running set, and the running set holds
\* exactly the ids of the launched workers whose terminal message is not yet
\* handled, one id for each.
C38_QueueRunningDisjointAndCounted ==
    ~idReused =>
      /\ QueuedIds \cap running_tasks = {}
      /\ Cardinality(running_tasks) = Cardinality(LaunchedUnhandled)
      /\ running_tasks = {jobId[j] : j \in LaunchedUnhandled}

\* C38 witness: a job waits in the queue while the one worker launched has
\* sent its terminal message, which the coordinator has not yet received, so
\* its id is still in the running set.
C38_Witness ==
    /\ ~idReused
    /\ queue # <<>>
    /\ Cardinality(running_tasks) = 1
    /\ \E j \in LaunchedUnhandled : wpc[j] = "done" /\ ResultPending(j)


\* The OS call of a pause, resume or cancel that holds the lock of the table.
SignalCall == pause_signal \/ resume_signal \/ cancel_signal

\* A sender is stopped at a full channel: a worker at one of its sends, or a
\* caller whose job could be submitted were there room.
SenderBlocked ==
    /\ Len(chan) = budget.capacity
    /\ \/ \E j \in Jobs : wpc[j] \in {"notify", "report_ok", "report_err"}
       \/ nextJob <= budget.jobs

\* C36: the coordinator only takes messages out of the channel: each pass of
\* its loop shortens the channel by one and a signal call leaves the channel
\* alone; and whenever a message is in the channel, in particular when the
\* channel is full and senders wait, the coordinator can receive it and run
\* its arm, or the arm waits for the lock of the table held by a signal
\* call, which can return without the channel and frees the lock.
C36_FullChannelCoordinatorReceives ==
    /\ [][CoordinatorReceive => Len(chan') = Len(chan) - 1]_vars
    /\ [][SignalCall => chan' = chan /\ ~InSignalCall']_vars
    /\ [](chan # <<>> =>
           \/ ENABLED CoordinatorReceive
           \/ InSignalCall /\ ENABLED SignalCall)

\* C36 witness: the channel is full, a worker waits to send its message and
\* a caller's submission waits for room, while the coordinator can receive.
C36_Witness ==
    /\ SenderBlocked
    /\ \E j \in Jobs : wpc[j] \in {"notify", "report_ok", "report_err"}
    /\ nextJob <= budget.jobs
    /\ ENABLED CoordinatorReceive


Launched(j) == \E i \in 1..Len(launchOrder) : launchOrder[i] = j

\* The coordinator has received the terminal message of job j.
TerminalHandled(j) == wpc[j] = "done" /\ ~ResultPending(j)

\* C35: when every launched worker terminates, a job that is in the pending
\* queue is eventually launched and its terminal message is eventually
\* received by the coordinator, whatever changes of the limit are made
\* (the stored limit is never below 1).
C35_QueuedJobEventuallyLaunchedAndHandled ==
    /\ [](max_concurrency >= 1)
    /\ \A j \in 1..MaxSchedJobs : InQueue(j) ~> Launched(j)
    /\ \A j \in 1..MaxSchedJobs : InQueue(j) \/ Launched(j) ~> TerminalHandled(j)

\* C35 witness: a job that waited in the queue behind a running job, under a
\* limit of 1, has been launched after it and both have had their terminal
\* message received.
C35_Witness ==
    /\ max_concurrency = 1
    /\ Len(launchOrder) = 2
    /\ Len(enqOrder) = 2
    /\ \A j \in {launchOrder[1], launchOrder[2]} : TerminalHandled(j)
    /\ queue = <<>>
    /\ running_tasks = {}

====
